---- MODULE Spec2Model ----
(***************************************************************************)
(* A model of the bowl catalogue's image pipeline: validation and resize   *)
(* (lib/image-processing, kept in src/lib/storage-alternative.ts), the     *)
(* image upload component, the upload of an image set with its cleanup     *)
(* (src/lib/storage.ts), and the add / edit submissions that link the      *)
(* uploaded variants to Image records.                                     *)
(*                                                                         *)
(* The backend (relational store, blob store) is the environment: each     *)
(* request either succeeds or comes back with an error, chosen             *)
(* nondeterministically.  An async handler is one action per await.        *)
(*                                                                         *)
(* Each part of the program has its own specification over the same        *)
(* variables; the variables of the other parts stay at their initial       *)
(* value.                                                                  *)
(***************************************************************************)
EXTENDS Integers, Sequences, FiniteSets, TLC

VARIABLES
    file,          \* validateImageFile: the File handed to the validator
    validation,    \* validateImageFile: its result, or NotRun
    img,           \* processImage: the decoded source image (width, height)
    processed,     \* processImage: the four resized variants, or NotRun
    \* the backend
    bowls,         \* table bowls: the rows
    bowl_finishes, \* table bowl_finishes: the rows
    bowl_images,   \* table bowl_images: the rows
    idSeq,         \* the ids the database has handed out
    storage,       \* bucket bowl-images: the paths that hold a blob
    net,           \* every request sent to the backend, in order
    \* the add page (AddBowlPage)
    user,          \* useAuth().user is set
    images,        \* state images: ProcessedImageData[]
    finishes,      \* state finishes: string[]
    loading,       \* state loading
    debugInfo,     \* state debugInfo: the accumulated entries
    toasts,        \* the toasts shown, in order
    addPc,         \* where handleSubmit stands
    submits,       \* how many times the form was submitted
    bowlId,        \* handleSubmit: bowlData[0].id
    i,             \* handleSubmit: the loop index over images
    sizeIdx,       \* uploadImageSet: position in sizes
    results,       \* uploadImageSet: Partial<UploadedImageSet>, in insertion order
    calls,         \* the calls of uploadImageSet so far, and how each ended
    \* the image upload component (EnhancedImageUpload); its images prop is
    \* the add page's images
    processing,    \* state processing
    processingProgress, \* state processingProgress
    error,         \* state error
    runs,          \* the calls of handleFileSelect so far, and where each stands
    picked,        \* how many files were picked so far
    removals,      \* how many images were removed so far
    \* the edit page (src/app/bowl/[id]/edit/page.tsx)
    editImages,    \* state images
    editFinishes,  \* state finishes
    pendingReads,  \* the files a FileReader is reading
    uploadError,   \* state uploadError
    orderChanged,  \* state orderChanged
    editLoading,   \* state loading
    editToasts,    \* the toasts shown
    editPc,        \* where handleSubmit stands
    submitted,     \* images as the running handleSubmit sees it
    imagesToDelete, \* handleSubmit's imagesToDelete
    editIdx,       \* the index of the loop handleSubmit is in (from 1)
    uploadedCount, \* handleSubmit's uploadedCount
    uploadErrors,  \* handleSubmit's uploadErrors
    editPicked,    \* how many files were picked so far
    editMoves,     \* how many images were moved or removed so far
    faults,        \* how many requests the backend has failed so far
    \* the detail page (src/app/bowl/[id]/page.tsx)
    detailImages,  \* state bowl.images
    detailOrderChanged, \* state orderChanged
    detailToasts,  \* the toasts shown
    detailPc,      \* where saveImageOrder or handleDeleteImage stands
    imageIds,      \* saveImageOrder's imageIds
    detailIdx,     \* saveImageOrder's loop index (from 1)
    imageToDeleteIndex, \* state imageToDeleteIndex (from 1, 0 for null)
    detailMoves,   \* how many images were moved so far
    imagePaths,    \* handleDelete: the paths getBowlImagePaths returned
    \* the camera page's hand-over (src/app/camera/page.tsx)
    capturedImages, \* sessionStorage item "capturedImages": the photos taken
    \* the finish inputs of the add page and of the edit page
    page,          \* the page that is open: "add", "edit" or "none"
    newFinish,     \* state newFinish of the add page
    editNewFinish, \* state newFinish of the edit page
    draft,         \* localStorage: the form data and finishes the add page saved
    \* uploadImageAlternative (src/lib/storage-alternative.ts)
    altPc,         \* where the call stands: "idle" or the approach it is trying
    altCalls,      \* how many calls were made so far
    altInput,      \* the base64Image of the running call
    altResult,     \* what the last call returned, or that it threw
    \* the service worker (src/public/sw.js)
    swState,       \* "parsed", "installed", "activating" or "activated"
    cacheStore,    \* CacheStorage: for each cache that exists the URLs it holds
    cacheNames,    \* activate: the names caches.keys() returned
    deleting,      \* activate: the caches.delete calls still to settle
    swRequest,     \* the request of the fetch event at hand, or Null
    swStep,        \* where the handling of that request stands
    swNetwork,     \* how the network answered it: "none", "responded", "failed"
    swResponse,    \* what the page got for it, or Null
    pendingPuts,   \* cache.put calls not yet done
    swFetches,     \* how many fetch events there were so far
    \* AuthProvider (src/components/auth/auth-provider.tsx)
    authUser,      \* state user: the signed-in user, or Null
    authLoading,   \* state loading
    session,       \* the session the auth client holds, or Null
    authEvents,    \* auth events emitted and not yet handed to the listener
    handled,       \* the events the listener has handled, in order
    lookupPc,      \* getInitialSession: "pending", "read" or "done"
    lookupValue,   \* getInitialSession: the session getSession has read
    signOutPc,     \* where signOut stands
    restoreValue,  \* signOut's catch: the session getSession has read
    emitted,       \* how many events other tabs and the client have caused
    signOuts,      \* how many times signOut was called
    \* the form of the add page (src/app/add/page.tsx)
    formData,      \* state formData
    showRestorePrompt, \* state showRestorePrompt
    savedDataToRestore \* state savedDataToRestore

valVars == <<file, validation>>
dimVars == <<img, processed>>
dbVars == <<bowls, bowl_finishes, bowl_images, idSeq, storage, net>>
addVars == <<user, images, finishes, loading, debugInfo, toasts, addPc, submits,
             bowlId, i, sizeIdx, results, calls>>
selVars == <<processing, processingProgress, error, runs, picked, removals>>
editVars == <<editImages, editFinishes, pendingReads, uploadError, orderChanged,
              editLoading, editToasts, editPc, submitted, imagesToDelete, editIdx,
              uploadedCount, uploadErrors, editPicked, editMoves, faults>>
editFormVars == <<editImages, editFinishes, pendingReads, uploadError, orderChanged,
                  editLoading, editToasts, editPc, submitted, imagesToDelete, editIdx,
                  uploadedCount, uploadErrors, editPicked, editMoves>>
detailVars == <<detailImages, detailOrderChanged, detailToasts, detailPc, imageIds,
                detailIdx, imageToDeleteIndex, detailMoves, imagePaths>>
camVars == <<capturedImages>>
finVars == <<page, newFinish, editNewFinish, draft>>
altVars == <<altPc, altCalls, altInput, altResult>>
swVars == <<swState, cacheStore, cacheNames, deleting, swRequest, swStep, swNetwork,
            swResponse, pendingPuts, swFetches>>
authVars == <<authUser, authLoading, session, authEvents, handled, lookupPc, lookupValue,
              signOutPc, restoreValue, emitted, signOuts>>
formVars == <<formData, showRestorePrompt, savedDataToRestore>>
extVars == <<altVars, swVars, authVars, formVars>>
vars == <<valVars, dimVars, dbVars, addVars, selVars, editVars, detailVars, camVars,
          finVars, extVars>>

\* what the actions of each part leave alone
ValFrame == UNCHANGED <<dimVars, dbVars, addVars, selVars, editVars, detailVars, camVars, finVars, extVars>>
DimFrame == UNCHANGED <<valVars, dbVars, addVars, selVars, editVars, detailVars, camVars, finVars, extVars>>
AddFrame ==
    UNCHANGED <<valVars, dimVars, selVars, editVars, detailVars, camVars, page, newFinish,
                editNewFinish, extVars>>
EditFrame == UNCHANGED <<valVars, dimVars, addVars, selVars, detailVars, camVars, finVars, extVars>>
DetailFrame == UNCHANGED <<valVars, dimVars, addVars, selVars, editFormVars, camVars, finVars, extVars>>
SelFrame ==
    /\ UNCHANGED <<valVars, dimVars, dbVars, editVars, detailVars, camVars, finVars, extVars>>
    /\ UNCHANGED <<user, finishes, loading, debugInfo, toasts, addPc, submits, bowlId,
                   i, sizeIdx, results, calls>>

\* the value of a result before the call that sets it
NotRun == [run |-> FALSE]

(***************************************************************************)
(* Bounds of the model                                                     *)
(***************************************************************************)
\* file sizes are taken within SizeSpread bytes of the limit (and 0, 1)
SizeSpread == 2
\* source dimensions 1..SmallDims, and within NearBox pixels of each box
SmallDims == 6
NearBox == 2
\* images on the add form
MaxImages == 2
\* submissions of the add form
MaxSubmits == 2
\* files picked or dropped on the upload component, over all selections
MaxPicked == 2
\* images removed on the upload component
MaxRemovals == 1
\* images the bowl has when the edit page opens
MaxExisting == 2
\* files picked on the edit page
MaxEditPicked == 2
\* images moved or removed on the edit page
MaxEdits == 2
\* requests the backend fails while the edit page or the detail page is open
MaxFaults == 1
\* images moved on the detail page
MaxMoves == 2
\* photos handed over by the camera page
MaxCaptured == 1
\* characters of a finish name typed into the input
MaxNameLen == 2
\* names in a finishes list
MaxFinishes == 2
\* calls of uploadImageAlternative
MaxAltCalls == 3
\* fetch events the service worker sees
MaxFetches == 2
\* auth events caused by other tabs and by the auth client
MaxAuthEvents == 3
\* calls of signOut
MaxSignOuts == 1

Range(s) == {s[n] : n \in DOMAIN s}

(***************************************************************************)
(* validateImageFile                                                       *)
(***************************************************************************)
\* A MIME type "major/minor" is the pair of its two halves, so that
\* startsWith("image/") and includes(file.type) are computed, not assumed.
Mime(major, minor) == [major |-> major, minor |-> minor]

MaxFileBytes == 10 * 1024 * 1024

supportedTypes ==
    << Mime("image", "jpeg"), Mime("image", "jpg"), Mime("image", "png"),
       Mime("image", "webp"), Mime("image", "gif") >>

ErrNotImage == "File must be an image"
ErrTooLarge == "Image must be smaller than 10MB"
ErrFormat == "Supported formats: JPEG, PNG, WebP, GIF"
NoError == "undefined"

startsWithImage(type) == type.major = "image"

\* a validator that forgets the size check
validateImageFile_NoSizeCheck(f) ==
    IF ~startsWithImage(f.type)
    THEN [valid |-> FALSE, error |-> ErrNotImage]
    ELSE IF f.type \notin Range(supportedTypes)
    THEN [valid |-> FALSE, error |-> ErrFormat]
    ELSE [valid |-> TRUE, error |-> NoError]

validateImageFile(f) ==
    IF ~startsWithImage(f.type)
    THEN [valid |-> FALSE, error |-> ErrNotImage]
    ELSE IF f.size > MaxFileBytes
    THEN [valid |-> FALSE, error |-> ErrTooLarge]
    ELSE IF f.type \notin Range(supportedTypes)
    THEN [valid |-> FALSE, error |-> ErrFormat]
    ELSE [valid |-> TRUE, error |-> NoError]

\* the inputs of the validator
MimeTypes ==
    Range(supportedTypes) \cup
    { Mime("image", "bmp"), Mime("image", "svg+xml"), Mime("image", "heic"),
      Mime("text", "plain"), Mime("application", "pdf"), Mime("video", "mp4"),
      Mime("", "") }

FileSizes ==
    {0, 1} \cup { MaxFileBytes + d : d \in (0 - SizeSpread)..SizeSpread }

Files == [type : MimeTypes, size : FileSizes]

ValInit ==
    /\ file \in Files
    /\ validation = NotRun

\* a call validateImageFile(file)
Validate ==
    /\ validation = NotRun
    /\ validation' = validateImageFile(file)
    /\ file' = file
    /\ ValFrame

\* the user picks another file
PickFile ==
    /\ validation # NotRun
    /\ file' \in Files
    /\ validation' = NotRun
    /\ ValFrame

(***************************************************************************)
(* calculateDimensions, resizeImage, processImage                          *)
(*                                                                         *)
(* The code computes in IEEE doubles; the model computes the same          *)
(* quotients as exact fractions n/d.  Math.round rounds half up.  A        *)
(* quotient of two integers is correctly rounded, so its double rounds as  *)
(* the exact value does.  When both branches scale, the width is the       *)
(* quotient of an integer and an already rounded double: where the exact   *)
(* width is k + 1/2 the double may fall just below it (154 x 264 in a box  *)
(* of 150 gives 87, not 88), so both k and k + 1 are outcomes there.  A    *)
(* result is therefore a set of possible return values.                    *)
(***************************************************************************)
RECURSIVE GCD(_, _)
GCD(a, b) == IF b = 0 THEN a ELSE GCD(b, a % b)

Frac(n, d) == LET g == GCD(n, d) IN [n |-> n \div g, d |-> d \div g]
Whole(k) == [n |-> k, d |-> 1]

\* (x * m) / y for fractions x, y > 0 and an integer m
MulDiv(x, m, y) ==
    LET g1 == GCD(x.n, y.n)
        xn == x.n \div g1
        yn == y.n \div g1
        g2 == GCD(m, yn)
        mm == m \div g2
        yo == yn \div g2
    IN  Frac(xn * mm * y.d, x.d * yo)

Greater(x, k) == x.n > k * x.d

MathRound(x) == (2 * x.n + x.d) \div (2 * x.d)

\* Math.round of a double that went through two roundings
MathRoundInexact(x) ==
    IF x.d = 2 THEN {x.n \div 2, x.n \div 2 + 1} ELSE {MathRound(x)}

\* a resize that clamps each axis on its own
calculateDimensions_ClampEachAxis(originalWidth, originalHeight, maxWidth, maxHeight) ==
    { [ width |-> IF originalWidth > maxWidth THEN maxWidth ELSE originalWidth,
        height |-> IF originalHeight > maxHeight THEN maxHeight ELSE originalHeight ] }

calculateDimensions(originalWidth, originalHeight, maxWidth, maxHeight) ==
    LET w0 == Whole(originalWidth)
        h0 == Whole(originalHeight)
        \* if (width > maxWidth) { height = (height * maxWidth) / width; width = maxWidth }
        first == Greater(w0, maxWidth)
        h1 == IF first THEN MulDiv(h0, maxWidth, w0) ELSE h0
        w1 == IF first THEN Whole(maxWidth) ELSE w0
        \* if (height > maxHeight) { width = (width * maxHeight) / height; height = maxHeight }
        second == Greater(h1, maxHeight)
        w2 == IF second THEN MulDiv(w1, maxHeight, h1) ELSE w1
        h2 == IF second THEN Whole(maxHeight) ELSE h1
        widths == IF first /\ second THEN MathRoundInexact(w2) ELSE {MathRound(w2)}
    IN  { [width |-> w, height |-> MathRound(h2)] : w \in widths }

\* the canvas the variant is drawn on; quality is in hundredths
resizeImage(image, maxWidth, maxHeight, quality) ==
    { [width |-> d.width, height |-> d.height, quality |-> quality] :
        d \in calculateDimensions(image.width, image.height, maxWidth, maxHeight) }

ThumbnailBox == 150
MediumBox == 400
FullBox == 800
OriginalBox == 1200

\* the sizes with the original first
sizes_OriginalFirst == <<"original", "thumbnail", "medium", "full">>

sizes == <<"thumbnail", "medium", "full", "original">>

BoxOf(size) ==
    CASE size = "thumbnail" -> ThumbnailBox
      [] size = "medium" -> MediumBox
      [] size = "full" -> FullBox
      [] size = "original" -> OriginalBox

processImage(image) ==
    [ thumbnail : resizeImage(image, ThumbnailBox, ThumbnailBox, 80),
      medium : resizeImage(image, MediumBox, MediumBox, 85),
      full : resizeImage(image, FullBox, FullBox, 90),
      original : resizeImage(image, OriginalBox, OriginalBox, 95) ]

\* source dimensions: small ones, those around each box and around twice
\* each box, and the photo sizes the repository names
Boxes == {ThumbnailBox, MediumBox, FullBox, OriginalBox}

PhotoDims == {1080, 1920, 2000, 3000, 4000}

Dims ==
    (1..SmallDims)
    \cup { b + d : b \in Boxes, d \in (0 - NearBox)..NearBox }
    \cup { 2 * b + d : b \in Boxes, d \in (0 - NearBox)..NearBox }
    \cup PhotoDims

DimInit ==
    /\ img \in [width : Dims, height : Dims]
    /\ processed = NotRun

\* img.onload of processImage
ProcessImage ==
    /\ processed = NotRun
    /\ processed' \in processImage(img)
    /\ img' = img
    /\ DimFrame

(***************************************************************************)
(* The backend                                                             *)
(***************************************************************************)
\* a request as the log keeps it: the operation, what it is about (a path,
\* a list of paths, a table), whether it succeeded, and the uploadImageSet
\* call it belongs to (0: none)
Req(op, target, ok, call) == [op |-> op, target |-> target, ok |-> ok, call |-> call]

\* storage.from("bowl-images").getPublicUrl(path)
getPublicUrl(path) == [publicUrl |-> path]

\* storage.from("bowl-images").remove(paths), when it succeeds
Removed(store, paths) == store \ Range(paths)

DbIdle ==
    /\ bowls = {}
    /\ bowl_finishes = {}
    /\ bowl_images = {}
    /\ idSeq = 0
    /\ storage = {}
    /\ net = <<>>

(***************************************************************************)
(* uploadImageSet and cleanupPartialUpload (src/lib/storage.ts)            *)
(***************************************************************************)
\* `bowls/${bowlId}/${size}/${baseFileName}.jpg`; baseFileName is
\* `${timestamp}-${randomId}`, taken to be fresh for every call
filePath(bowl, size, baseFileName) == [bowl |-> bowl, size |-> size, name |-> baseFileName]

\* what uploadSingleImage returns
uploadResultOf(path) == [url |-> getPublicUrl(path).publicUrl, path |-> path]

\* a cleanup that forgets the first upload
pathsToDelete_SkipFirst(partialResults) ==
    IF partialResults = <<>> THEN <<>>
    ELSE [k \in 1..(Len(partialResults) - 1) |-> partialResults[k + 1].result.path]

\* a cleanup that removes only the latest upload
pathsToDelete_OnlyLast(partialResults) ==
    IF partialResults = <<>> THEN <<>>
    ELSE << partialResults[Len(partialResults)].result.path >>

\* cleanupPartialUpload: the paths of Object.values(partialResults)
pathsToDelete(partialResults) ==
    [k \in 1..Len(partialResults) |-> partialResults[k].result.path]

\* results as UploadedImageSet
asUploadedImageSet(partialResults) ==
    [ s \in {partialResults[k].size : k \in 1..Len(partialResults)} |->
        (CHOOSE r \in Range(partialResults) : r.size = s).result ]

(***************************************************************************)
(* The add page: handleSubmit (src/app/add/page.tsx)                       *)
(***************************************************************************)
NoBowl == 0
TheBowl == 1

\* a file the browser hands over: its name, type and size, and whether it
\* decodes ("good"), fails to load ("undecodable") or fails on the canvas
\* ("unresizable")
PickedFile(name, type, size, content) ==
    [name |-> name, type |-> type, size |-> size, content |-> content]

\* the ProcessedImageData the upload component builds for a file
ImageDataOf(f) ==
    [ id |-> f.name, file |-> f, fileSize |-> f.size,
      dimensions |-> [width |-> 1920, height |-> 1080], isNew |-> TRUE ]

\* ProcessedImageData of a valid photo named k
ImageData(k) == ImageDataOf(PickedFile(k, Mime("image", "jpeg"), 1000 * k, "good"))

\* the sequences over S of length at most n without repetition
InjectiveSeqs(S, n) ==
    { q \in UNION { [1..m -> S] : m \in 0..n } :
        \A a, b \in DOMAIN q : a # b => q[a] # q[b] }

ImageLists ==
    { [k \in 1..Len(q) |-> ImageData(q[k])] : q \in InjectiveSeqs(1..MaxImages, MaxImages) }

FinishLists == { <<>>, <<"Tung oil", "Danish oil">> }

Toast(title, variant) == [title |-> title, variant |-> variant]

\* localStorage without the two items of the add page
NoDraft == [saved |-> FALSE]

\* saveFormDataToStorage(data, finishesData): what localStorage holds after
\* the two setItem calls
saveFormDataToStorage(data, finishesData) ==
    [saved |-> TRUE, formData |-> data, finishes |-> finishesData]

\* clearFormDataFromStorage(): what localStorage holds after the two
\* removeItem calls
clearFormDataFromStorage == NoDraft

DebugEntry(text, n) == [text |-> text, n |-> n]

\* setDebugInfo that overwrites instead of accumulating
appendDebug_Overwrite(prev, entry) == <<entry>>

\* a failure that leaves no trace in the debug text
appendDebug_Drop(prev, entry) == prev

\* setDebugInfo((prev) => `${prev || ""}\n...`)
appendDebug(prev, entry) == Append(prev, entry)

\* a record numbered from 1
ImageRecord_OneBased(bowl, uploadResult, image, index) ==
    [ bowl_id |-> bowl,
      image_url |-> uploadResult.medium.url,
      storage_path |-> uploadResult.medium.path,
      thumbnail_url |-> uploadResult.thumbnail.url,
      thumbnail_path |-> uploadResult.thumbnail.path,
      medium_url |-> uploadResult.medium.url,
      medium_path |-> uploadResult.medium.path,
      full_url |-> uploadResult.full.url,
      full_path |-> uploadResult.full.path,
      original_url |-> uploadResult.original.url,
      original_path |-> uploadResult.original.path,
      file_size |-> image.fileSize,
      original_dimensions |-> image.dimensions,
      display_order |-> index + 1 ]

\* the row handleSubmit inserts into bowl_images
ImageRecord(bowl, uploadResult, image, index) ==
    [ bowl_id |-> bowl,
      image_url |-> uploadResult.medium.url,
      storage_path |-> uploadResult.medium.path,
      thumbnail_url |-> uploadResult.thumbnail.url,
      thumbnail_path |-> uploadResult.thumbnail.path,
      medium_url |-> uploadResult.medium.url,
      medium_path |-> uploadResult.medium.path,
      full_url |-> uploadResult.full.url,
      full_path |-> uploadResult.full.path,
      original_url |-> uploadResult.original.url,
      original_path |-> uploadResult.original.path,
      file_size |-> image.fileSize,
      original_dimensions |-> image.dimensions,
      display_order |-> index ]

\* the database adds the row's id
WithId(row, id) == [f \in DOMAIN row \cup {"id"} |-> IF f = "id" THEN id ELSE row[f]]

AddInit ==
    /\ user \in BOOLEAN
    /\ images \in ImageLists
    /\ finishes \in FinishLists
    /\ loading = FALSE
    /\ debugInfo = <<>>
    /\ toasts = <<>>
    /\ addPc = "idle"
    /\ submits = 0
    /\ bowlId = NoBowl
    /\ i = 0
    /\ sizeIdx = 0
    /\ results = <<>>
    /\ calls = <<>>

CurrentCall == calls[Len(calls)]

\* the head of `for (let i = 0; i < images.length; i++)` with i = j: the next
\* call of uploadImageSet starts, or the loop is over and the submission ends
\* with clearFormDataFromStorage, the "Bowl Added" toast and router.push
LoopHead(j, callsNow) ==
    IF j < Len(images)
    THEN /\ addPc' = "upload"
         /\ i' = j
         /\ sizeIdx' = 1
         /\ results' = <<>>
         /\ calls' = Append(callsNow,
                [image |-> j, token |-> Len(callsNow) + 1, failedAt |-> 0, ret |-> "pending"])
         /\ toasts' = toasts
         /\ draft' = draft
    ELSE /\ addPc' = "done"
         /\ i' = j
         /\ sizeIdx' = 0
         /\ results' = <<>>
         /\ calls' = callsNow
         /\ toasts' = Append(toasts, Toast("Bowl Added", "default"))
         /\ draft' = clearFormDataFromStorage

\* handleSubmit without a user: the error toast, and nothing else
AddSubmit_NotSignedIn ==
    /\ addPc = "idle" /\ ~loading /\ ~user
    /\ submits < MaxSubmits
    /\ submits' = submits + 1
    /\ toasts' = Append(toasts, Toast("Error", "destructive"))
    /\ UNCHANGED <<user, images, finishes, loading, debugInfo, addPc, bowlId, i,
                   sizeIdx, results, calls>>
    /\ UNCHANGED dbVars
    /\ UNCHANGED draft
    /\ AddFrame

\* handleSubmit up to the insert into bowls
AddSubmit_Begin ==
    /\ addPc = "idle" /\ ~loading /\ user
    /\ submits < MaxSubmits
    /\ submits' = submits + 1
    /\ loading' = TRUE
    /\ debugInfo' = <<>>
    /\ addPc' = "insertBowl"
    /\ UNCHANGED <<user, images, finishes, toasts, bowlId, i, sizeIdx, results, calls>>
    /\ UNCHANGED dbVars
    /\ UNCHANGED draft
    /\ AddFrame

\* the insert into bowls failed (an error, or no row came back): the catch
AddSubmit_BowlFailed ==
    /\ addPc = "insertBowl"
    /\ net' = Append(net, Req("insert", "bowls", FALSE, 0))
    /\ debugInfo' = << DebugEntry("Error", 0) >>
    /\ toasts' = Append(toasts, Toast("Error", "destructive"))
    /\ loading' = FALSE
    /\ addPc' = "idle"
    /\ UNCHANGED <<user, images, finishes, submits, bowlId, i, sizeIdx, results, calls>>
    /\ UNCHANGED <<bowls, bowl_finishes, bowl_images, idSeq, storage>>
    /\ UNCHANGED draft
    /\ AddFrame

\* the insert into bowls succeeded; with finishes their insert is next,
\* without the image loop starts
AddSubmit_BowlInserted ==
    /\ addPc = "insertBowl"
    /\ net' = Append(net, Req("insert", "bowls", TRUE, 0))
    /\ bowls' = bowls \cup {TheBowl}
    /\ bowlId' = TheBowl
    /\ IF Len(finishes) > 0
       THEN /\ addPc' = "insertFinishes"
            /\ UNCHANGED <<i, sizeIdx, results, calls, toasts, draft>>
       ELSE LoopHead(0, calls)
    /\ UNCHANGED <<user, images, finishes, loading, debugInfo, submits>>
    /\ UNCHANGED <<bowl_finishes, bowl_images, idSeq, storage>>
    /\ AddFrame

\* the insert into bowl_finishes came back
AddSubmit_FinishesInserted(ok) ==
    /\ addPc = "insertFinishes"
    /\ net' = Append(net, Req("insert", "bowl_finishes", ok, 0))
    /\ bowl_finishes' =
          IF ok THEN bowl_finishes \cup
                     { [bowl_id |-> bowlId, finish_name |-> f] : f \in Range(finishes) }
          ELSE bowl_finishes
    /\ debugInfo' = IF ok THEN debugInfo
                    ELSE appendDebug(debugInfo, DebugEntry("Finish error", 0))
    /\ LoopHead(0, calls)
    /\ UNCHANGED <<user, images, finishes, loading, submits, bowlId>>
    /\ UNCHANGED <<bowls, bowl_images, idSeq, storage>>
    /\ AddFrame

\* uploadSingleImage of sizes[sizeIdx] succeeded
AddUpload_VariantStored ==
    /\ addPc = "upload"
    /\ LET size == sizes[sizeIdx]
           path == filePath(bowlId, size, CurrentCall.token)
           res == Append(results, [size |-> size, result |-> uploadResultOf(path)])
       IN  /\ net' = Append(net, Req("upload", path, TRUE, CurrentCall.token))
           /\ storage' = storage \cup {path}
           /\ results' = res
           /\ IF sizeIdx < Len(sizes)
              THEN /\ sizeIdx' = sizeIdx + 1
                   /\ UNCHANGED <<addPc, calls>>
              ELSE \* return results as UploadedImageSet
                   /\ sizeIdx' = 0
                   /\ addPc' = "insertImage"
                   /\ calls' = [calls EXCEPT ![Len(calls)].ret = "set"]
    /\ UNCHANGED <<user, images, finishes, loading, debugInfo, toasts, submits, bowlId, i>>
    /\ UNCHANGED <<bowls, bowl_finishes, bowl_images, idSeq>>
    /\ UNCHANGED draft
    /\ AddFrame

\* uploadSingleImage of sizes[sizeIdx] failed with nothing uploaded before:
\* cleanupPartialUpload sends nothing, uploadImageSet returns null,
\* handleSubmit notes the failure and goes on with the next image
AddUpload_VariantFailed_NothingToClean ==
    /\ addPc = "upload"
    /\ Len(pathsToDelete(results)) = 0
    /\ LET size == sizes[sizeIdx]
           path == filePath(bowlId, size, CurrentCall.token)
       IN  net' = Append(net, Req("upload", path, FALSE, CurrentCall.token))
    /\ debugInfo' = appendDebug(debugInfo, DebugEntry("Image upload failed for image", i + 1))
    /\ LoopHead(i + 1, [calls EXCEPT ![Len(calls)].failedAt = sizeIdx,
                                     ![Len(calls)].ret = "null"])
    /\ UNCHANGED <<user, images, finishes, loading, submits, bowlId>>
    /\ UNCHANGED <<bowls, bowl_finishes, bowl_images, idSeq, storage>>
    /\ AddFrame

\* uploadSingleImage of sizes[sizeIdx] failed after earlier uploads:
\* cleanupPartialUpload sends its remove request
AddUpload_VariantFailed_Cleanup ==
    /\ addPc = "upload"
    /\ Len(pathsToDelete(results)) > 0
    /\ LET size == sizes[sizeIdx]
           path == filePath(bowlId, size, CurrentCall.token)
       IN  net' = Append(net, Req("upload", path, FALSE, CurrentCall.token))
    /\ calls' = [calls EXCEPT ![Len(calls)].failedAt = sizeIdx]
    /\ addPc' = "cleanup"
    /\ UNCHANGED <<user, images, finishes, loading, debugInfo, toasts, submits, bowlId,
                   i, sizeIdx, results>>
    /\ UNCHANGED <<bowls, bowl_finishes, bowl_images, idSeq, storage>>
    /\ UNCHANGED draft
    /\ AddFrame

\* the remove request of cleanupPartialUpload came back (a failure is only
\* logged); uploadImageSet returns null and handleSubmit goes on
AddUpload_CleanupDone(ok) ==
    /\ addPc = "cleanup"
    /\ net' = Append(net, Req("remove", pathsToDelete(results), ok, CurrentCall.token))
    /\ storage' = IF ok THEN Removed(storage, pathsToDelete(results)) ELSE storage
    /\ debugInfo' = appendDebug(debugInfo, DebugEntry("Image upload failed for image", i + 1))
    /\ LoopHead(i + 1, [calls EXCEPT ![Len(calls)].ret = "null"])
    /\ UNCHANGED <<user, images, finishes, loading, submits, bowlId>>
    /\ UNCHANGED <<bowls, bowl_finishes, bowl_images, idSeq>>
    /\ AddFrame

\* the insert into bowl_images came back
AddSubmit_ImageInserted(ok) ==
    /\ addPc = "insertImage"
    /\ LET row == ImageRecord(bowlId, asUploadedImageSet(results), images[i + 1], i)
       IN  /\ net' = Append(net, Req("insert", "bowl_images", ok, CurrentCall.token))
           /\ bowl_images' = IF ok THEN bowl_images \cup {WithId(row, idSeq + 1)}
                             ELSE bowl_images
           /\ idSeq' = IF ok THEN idSeq + 1 ELSE idSeq
    /\ debugInfo' = IF ok THEN debugInfo
                    ELSE appendDebug(debugInfo, DebugEntry("Image error", 0))
    /\ LoopHead(i + 1, calls)
    /\ UNCHANGED <<user, images, finishes, loading, submits, bowlId>>
    /\ UNCHANGED <<bowls, bowl_finishes, storage>>
    /\ AddFrame

AddIdle ==
    /\ user = FALSE
    /\ images = <<>>
    /\ finishes = <<>>
    /\ loading = FALSE
    /\ debugInfo = <<>>
    /\ toasts = <<>>
    /\ addPc = "idle"
    /\ submits = 0
    /\ bowlId = NoBowl
    /\ i = 0
    /\ sizeIdx = 0
    /\ results = <<>>
    /\ calls = <<>>

(***************************************************************************)
(* The image upload component: handleFileSelect, handleDrop, removeImage   *)
(* (src/components/enhanced-image-upload.tsx)                              *)
(***************************************************************************)
maxImages == 10

\* the kinds of file a selection is made of
FileKinds ==
    { [type |-> Mime("image", "jpeg"), size |-> MaxFileBytes, content |-> "good"],
      [type |-> Mime("image", "jpeg"), size |-> MaxFileBytes + 1, content |-> "good"],
      [type |-> Mime("image", "bmp"), size |-> 1, content |-> "good"],
      [type |-> Mime("image", "png"), size |-> 1, content |-> "undecodable"],
      [type |-> Mime("image", "png"), size |-> 1, content |-> "unresizable"] }

\* the FileLists of n files, named from first
FileListsOf(n, first) ==
    { [k \in 1..n |-> PickedFile(first + k, q[k].type, q[k].size, q[k].content)] :
        q \in [1..n -> FileKinds] }

SelInit ==
    /\ images \in { <<>>, [k \in 1..(maxImages - 1) |-> ImageData(100 + k)] }
    /\ processing = FALSE
    /\ processingProgress = 0
    /\ error = NoError
    /\ runs = <<>>
    /\ picked = 0
    /\ removals = 0

\* where one call of handleFileSelect stands
Run(files, captured, k, step, newImages) ==
    [files |-> files, captured |-> captured, k |-> k, step |-> step, newImages |-> newImages]

\* `break` in the catch of the loop: no file after k is looked at
AfterFailure(k, n) == n + 1

\* the for loop of run r from file k on, up to its next await: files that
\* fail validation end the loop (catch, setError, break); a valid file is
\* handed to getImageDimensions; past the last file the run ends
\* a loop that starts on the file after k without having looked at file k
LoopFrom_SkipFile(r, k, err) ==
    IF k + 1 > Len(r.files)
    THEN [run |-> [r EXCEPT !.k = k + 1, !.step = "done"], error |-> err]
    ELSE [run |-> [r EXCEPT !.k = k + 1, !.step = "dims"], error |-> err]

RECURSIVE LoopFrom(_, _, _)
LoopFrom(r, k, err) ==
    IF k > Len(r.files)
    THEN [run |-> [r EXCEPT !.k = k, !.step = "done"], error |-> err]
    ELSE IF ~validateImageFile(r.files[k]).valid
    THEN LoopFrom(r, AfterFailure(k, Len(r.files)), validateImageFile(r.files[k]).error)
    ELSE [run |-> [r EXCEPT !.k = k, !.step = "dims"], error |-> err]

\* the state after run number n moved to `next`: when it has ended,
\* onImagesChange([...images, ...newImages]) with the images of the render
\* the call was made in, setProcessing(false), setProcessingProgress(0)
Settle(n, next, progress) ==
    /\ runs' = [runs EXCEPT ![n] = next.run]
    /\ error' = next.error
    /\ IF next.run.step = "done"
       THEN /\ images' = IF Len(next.run.newImages) > 0
                         THEN next.run.captured \o next.run.newImages
                         ELSE images
            /\ processing' = FALSE
            /\ processingProgress' = 0
       ELSE /\ images' = images
            /\ processing' = processing
            /\ processingProgress' = progress

\* handleFileSelect(files) refused: the selection would exceed maxImages
SelectFiles_TooMany(files, byDrop) ==
    /\ ~loading
    /\ byDrop \/ ~processing
    /\ Len(images) + Len(files) > maxImages
    /\ picked' = picked + Len(files)
    /\ error' = "Maximum images allowed"
    /\ processing' = FALSE
    /\ processingProgress' = 0
    /\ runs' = Append(runs, Run(files, images, 1, "refused", <<>>))
    /\ UNCHANGED <<images, removals>>
    /\ SelFrame

\* handleFileSelect(files), from the file input (not rendered while
\* processing) or from handleDrop, up to its first await
SelectFiles(files, byDrop) ==
    /\ ~loading
    /\ byDrop \/ ~processing
    /\ Len(images) + Len(files) <= maxImages
    /\ picked' = picked + Len(files)
    /\ LET next == LoopFrom(Run(files, images, 1, "dims", <<>>), 1, NoError)
       IN  /\ runs' = Append(runs, next.run)
           /\ error' = next.error
           /\ IF next.run.step = "done"
              THEN processing' = FALSE /\ processingProgress' = 0
              ELSE processing' = TRUE /\ processingProgress' = 0
    /\ UNCHANGED <<images, removals>>
    /\ SelFrame

\* getImageDimensions(file) of run n settled
DimensionsSettled(n) ==
    /\ runs[n].step = "dims"
    /\ LET r == runs[n]
           f == r.files[r.k]
       IN  IF f.content = "undecodable"
           THEN Settle(n, LoopFrom(r, AfterFailure(r.k, Len(r.files)), "Failed to load image"),
                       processingProgress)
           ELSE Settle(n, [run |-> [r EXCEPT !.step = "process"], error |-> error],
                       processingProgress)
    /\ UNCHANGED <<picked, removals>>
    /\ SelFrame

\* processImage(file) of run n settled
ProcessSettled(n) ==
    /\ runs[n].step = "process"
    /\ LET r == runs[n]
           f == r.files[r.k]
       IN  IF f.content # "good"
           THEN Settle(n, LoopFrom(r, AfterFailure(r.k, Len(r.files)), "Error processing image"),
                       processingProgress)
           ELSE Settle(n, LoopFrom([r EXCEPT !.newImages = Append(@, ImageDataOf(f))],
                                   r.k + 1, error),
                       (r.k * 100) \div Len(r.files))
    /\ UNCHANGED <<picked, removals>>
    /\ SelFrame

\* removeImage(id)
RemoveImage(id) ==
    /\ removals < MaxRemovals
    /\ \E k \in DOMAIN images : images[k].id = id
    /\ removals' = removals + 1
    /\ images' = SelectSeq(images, LAMBDA im : im.id # id)
    /\ UNCHANGED <<processing, processingProgress, error, runs, picked>>
    /\ SelFrame

SelIdle ==
    /\ processing = FALSE
    /\ processingProgress = 0
    /\ error = NoError
    /\ runs = <<>>
    /\ picked = 0
    /\ removals = 0

AddIdleButImages ==
    /\ user = FALSE
    /\ finishes = <<>>
    /\ loading = FALSE
    /\ debugInfo = <<>>
    /\ toasts = <<>>
    /\ addPc = "idle"
    /\ submits = 0
    /\ bowlId = NoBowl
    /\ i = 0
    /\ sizeIdx = 0
    /\ results = <<>>
    /\ calls = <<>>

(***************************************************************************)
(* The edit page: fetchBowl, handleImageUpload, removeImage, moveImage,    *)
(* handleDragEnd (src/app/bowl/[id]/edit/page.tsx)                         *)
(* The user works on the form between submissions; a FileReader started    *)
(* before a submission may finish during it, until router.push has left    *)
(* the page.                                                               *)
(***************************************************************************)
Null == [null |-> TRUE]

\* the UploadedImageSet of an image the add page stored under baseFileName
StoredSet(bowl, baseFileName) ==
    [ s \in Range(sizes) |-> uploadResultOf(filePath(bowl, s, baseFileName)) ]

\* the bowl_images row the add page wrote for its image number k
StoredRow(k) ==
    WithId(ImageRecord(TheBowl, StoredSet(TheBowl, k), ImageData(k), k - 1), k)

\* the backend holding one bowl with n images and the finishes fin, as the
\* add page leaves it
StoredBowl(n, fin) ==
    /\ bowls = {TheBowl}
    /\ bowl_finishes = { [bowl_id |-> TheBowl, finish_name |-> f] : f \in Range(fin) }
    /\ bowl_images = { StoredRow(k) : k \in 1..n }
    /\ idSeq = n
    /\ storage = { filePath(TheBowl, s, k) : s \in Range(sizes), k \in 1..n }
    /\ net = <<>>

\* the rows of a bowl, in ascending order of f (ties by id)
RECURSIVE OrderedBy(_, _)
OrderedBy(rows, f) ==
    IF rows = {} THEN <<>>
    ELSE LET first == CHOOSE r \in rows :
                        \A q \in rows : r[f] < q[f] \/ (r[f] = q[f] /\ r.id <= q.id)
         IN  <<first>> \o OrderedBy(rows \ {first}, f)

\* fetchBowl: the images of the form, from the rows by display_order
ExistingImage(row) ==
    [url |-> row.image_url, isNew |-> FALSE, id |-> row.id, path |-> row.storage_path]

\* reader.readAsDataURL(file): the data URL carries the file's type and bytes
DataUrl(f) == [data |-> f]

\* the image reader.onload appends
NewImage(f) == [url |-> DataUrl(f), isNew |-> TRUE]

EditInit ==
    /\ \E n \in 0..MaxExisting, fin \in FinishLists :
          /\ StoredBowl(n, fin)
          /\ editImages = [k \in 1..n |-> ExistingImage(OrderedBy(bowl_images, "display_order")[k])]
          /\ editFinishes = fin
    /\ pendingReads = {}
    /\ uploadError = NoError
    /\ orderChanged = FALSE
    /\ editLoading = FALSE
    /\ editToasts = <<>>
    /\ editPc = "idle"
    /\ submitted = <<>>
    /\ imagesToDelete = <<>>
    /\ editIdx = 0
    /\ uploadedCount = 0
    /\ uploadErrors = 0
    /\ editPicked = 0
    /\ editMoves = 0
    /\ faults = 0

\* the files a selection on the edit page is made of
EditFileKinds ==
    { [type |-> Mime("image", "jpeg"), size |-> MaxFileBytes, content |-> "good"],
      [type |-> Mime("image", "jpeg"), size |-> MaxFileBytes + 1, content |-> "good"],
      [type |-> Mime("image", "bmp"), size |-> 1, content |-> "good"],
      [type |-> Mime("text", "plain"), size |-> 1, content |-> "undecodable"] }

EditFileListsOf(n, first) ==
    { [k \in 1..n |-> PickedFile(first + k, q[k].type, q[k].size, q[k].content)] :
        q \in [1..n -> EditFileKinds] }

\* the check handleImageUpload makes of one file
editAccepts(f) == ~(f.size > MaxFileBytes) /\ startsWithImage(f.type)

editRejection(f) ==
    IF f.size > MaxFileBytes THEN "Image files must be smaller than 10MB"
    ELSE "Only image files are allowed"

\* the uploadError after the forEach over files, starting from err
RECURSIVE ErrorAfter(_, _)
ErrorAfter(files, err) ==
    IF files = <<>> THEN err
    ELSE ErrorAfter(Tail(files), IF editAccepts(Head(files)) THEN err
                                 ELSE editRejection(Head(files)))

\* handleImageUpload: a FileReader is started for every file that passes
HandleImageUpload(files) ==
    /\ editPc = "idle"
    /\ editPicked' = editPicked + Len(files)
    /\ uploadError' = ErrorAfter(files, NoError)
    /\ pendingReads' = pendingReads \cup {f \in Range(files) : editAccepts(f)}
    /\ UNCHANGED <<editImages, editFinishes, orderChanged, editLoading, editToasts, editPc,
                   submitted, imagesToDelete, editIdx, uploadedCount, uploadErrors,
                   editMoves, faults>>
    /\ UNCHANGED dbVars
    /\ EditFrame

\* reader.onload of one file
ReaderLoaded(f) ==
    /\ editPc # "done"
    /\ f \in pendingReads
    /\ pendingReads' = pendingReads \ {f}
    /\ editImages' = Append(editImages, NewImage(f))
    /\ orderChanged' = TRUE
    /\ UNCHANGED <<editFinishes, uploadError, editLoading, editToasts, editPc, submitted,
                   imagesToDelete, editIdx, uploadedCount, uploadErrors, editPicked,
                   editMoves, faults>>
    /\ UNCHANGED dbVars
    /\ EditFrame

\* list without its element at position k (from 1)
Without(list, k) == SubSeq(list, 1, k - 1) \o SubSeq(list, k + 1, Len(list))

\* list with x put in at position k (from 1)
InsertAt(list, k, x) == SubSeq(list, 1, k - 1) \o <<x>> \o SubSeq(list, k, Len(list))

\* arrayMove(list, from, to) and the two splices of moveImage, positions from 1
arrayMove(list, from, to) == InsertAt(Without(list, from), to, list[from])

\* handleDeleteImage, removeImage(index): the image leaves the form
EditRemoveImage(index) ==
    /\ editPc = "idle"
    /\ editMoves < MaxEdits
    /\ index \in DOMAIN editImages
    /\ editMoves' = editMoves + 1
    /\ editImages' = Without(editImages, index)
    /\ orderChanged' = TRUE
    /\ editToasts' = Append(editToasts, Toast("Image Removed", "default"))
    /\ UNCHANGED <<editFinishes, pendingReads, uploadError, editLoading, editPc, submitted,
                   imagesToDelete, editIdx, uploadedCount, uploadErrors, editPicked, faults>>
    /\ UNCHANGED dbVars
    /\ EditFrame

\* moveImage(currentIndex, direction), by the arrow buttons
EditMoveImage(currentIndex, direction) ==
    /\ editPc = "idle"
    /\ editMoves < MaxEdits
    /\ currentIndex \in DOMAIN editImages
    /\ Len(editImages) > 1
    /\ LET newIndex == IF direction = "left"
                       THEN IF currentIndex - 1 > 1 THEN currentIndex - 1 ELSE 1
                       ELSE IF currentIndex + 1 < Len(editImages) THEN currentIndex + 1
                            ELSE Len(editImages)
       IN  /\ newIndex # currentIndex
           /\ editImages' = arrayMove(editImages, currentIndex, newIndex)
    /\ editMoves' = editMoves + 1
    /\ orderChanged' = TRUE
    /\ UNCHANGED <<editFinishes, pendingReads, uploadError, editLoading, editToasts, editPc,
                   submitted, imagesToDelete, editIdx, uploadedCount, uploadErrors,
                   editPicked, faults>>
    /\ UNCHANGED dbVars
    /\ EditFrame

\* handleDragEnd: image oldIndex dropped on image newIndex
EditDragEnd(oldIndex, newIndex) ==
    /\ editPc = "idle"
    /\ editMoves < MaxEdits
    /\ oldIndex \in DOMAIN editImages /\ newIndex \in DOMAIN editImages
    /\ oldIndex # newIndex
    /\ editMoves' = editMoves + 1
    /\ editImages' = arrayMove(editImages, oldIndex, newIndex)
    /\ orderChanged' = TRUE
    /\ editToasts' = Append(editToasts, Toast("Image Reordered", "default"))
    /\ UNCHANGED <<editFinishes, pendingReads, uploadError, editLoading, editPc, submitted,
                   imagesToDelete, editIdx, uploadedCount, uploadErrors, editPicked, faults>>
    /\ UNCHANGED dbVars
    /\ EditFrame

(***************************************************************************)
(* The edit page: handleSubmit, with uploadImage and deleteImage           *)
(* (src/lib/storage.ts)                                                    *)
(***************************************************************************)
\* a request the backend fails: at most MaxFaults of them
Outcome(ok) ==
    /\ ok \/ faults < MaxFaults
    /\ faults' = IF ok THEN faults ELSE faults + 1

\* UNIQUE(bowl_id, finish_name) of table bowl_finishes would be broken by
\* inserting the names of list for the bowl
FinishConflict(bowl, list) ==
    \E r \in bowl_finishes : r.bowl_id = bowl /\ r.finish_name \in Range(list)

newImagesOf(list) == SelectSeq(list, LAMBDA im : im.isNew)
nonNewImagesOf(list) == SelectSeq(list, LAMBDA im : ~im.isNew)

\* uploadImage: the path of the k-th upload of this bowl
legacyPath(bowl, k) == filePath(bowl, "legacy", k)

\* how many uploads uploadImage has asked for so far
LegacyUploads == Cardinality({k \in DOMAIN net : net[k].op = "upload"})

\* the row handleSubmit inserts for a new image; the columns it does not
\* name stay NULL
LegacyImageRecord(bowl, uploadResult, index) ==
    [ bowl_id |-> bowl,
      image_url |-> uploadResult.url,
      storage_path |-> uploadResult.path,
      thumbnail_url |-> Null, thumbnail_path |-> Null,
      medium_url |-> Null, medium_path |-> Null,
      full_url |-> Null, full_path |-> Null,
      original_url |-> Null, original_path |-> Null,
      file_size |-> Null, original_dimensions |-> Null,
      display_order |-> index ]

\* the toast handleSubmit ends with
FinalToast(uploaded, errors) ==
    IF errors > 0 /\ uploaded > 0 THEN Toast("Partial Success", "destructive")
    ELSE IF errors > 0 THEN Toast("Upload Issues", "destructive")
    ELSE Toast("Bowl Updated", "default")

\* the loop over nonNewImages from index k on, and what follows it
EnterOrder(k, uploaded, errors) ==
    /\ uploadedCount' = uploaded
    /\ uploadErrors' = errors
    /\ editIdx' = k
    /\ IF k <= Len(nonNewImagesOf(submitted))
       THEN editPc' = "order" /\ editToasts' = editToasts
       ELSE /\ editPc' = "done"
            /\ editToasts' = Append(editToasts, FinalToast(uploaded, errors))

\* the loop over newImages from index k on
EnterUpload(k, uploaded, errors) ==
    IF k <= Len(newImagesOf(submitted))
    THEN /\ editPc' = "upload"
         /\ editIdx' = k
         /\ uploadedCount' = uploaded
         /\ uploadErrors' = errors
         /\ editToasts' = editToasts
    ELSE EnterOrder(1, uploaded, errors)

\* the loop over imagesToDelete (dels) from index k on
EnterDelete(k, dels) ==
    IF k <= Len(dels)
    THEN /\ editPc' = "removeBlob"
         /\ editIdx' = k
         /\ UNCHANGED <<uploadedCount, uploadErrors, editToasts>>
    ELSE EnterUpload(1, 0, 0)

\* handleSubmit up to its first await
EditSubmit_Begin ==
    /\ editPc = "idle" /\ ~editLoading
    /\ editLoading' = TRUE
    /\ uploadError' = NoError
    /\ submitted' = editImages
    /\ editPc' = "updateBowl"
    /\ UNCHANGED <<editImages, editFinishes, pendingReads, orderChanged, editToasts,
                   imagesToDelete, editIdx, uploadedCount, uploadErrors, editPicked,
                   editMoves, faults>>
    /\ UNCHANGED dbVars
    /\ EditFrame

\* the update of bowls failed: the catch
EditSubmit_BowlFailed ==
    /\ editPc = "updateBowl"
    /\ Outcome(FALSE)
    /\ net' = Append(net, Req("update", "bowls", FALSE, 0))
    /\ uploadError' = "Failed to update bowl"
    /\ editToasts' = Append(editToasts, Toast("Error", "destructive"))
    /\ editLoading' = FALSE
    /\ editPc' = "idle"
    /\ UNCHANGED <<editImages, editFinishes, pendingReads, orderChanged, submitted,
                   imagesToDelete, editIdx, uploadedCount, uploadErrors, editPicked, editMoves>>
    /\ UNCHANGED <<bowls, bowl_finishes, bowl_images, idSeq, storage>>
    /\ EditFrame

\* the update of bowls succeeded
EditSubmit_BowlUpdated ==
    /\ editPc = "updateBowl"
    /\ net' = Append(net, Req("update", "bowls", TRUE, 0))
    /\ editPc' = "deleteFinishes"
    /\ UNCHANGED <<editImages, editFinishes, pendingReads, uploadError, orderChanged,
                   editLoading, editToasts, submitted, imagesToDelete, editIdx,
                   uploadedCount, uploadErrors, editPicked, editMoves, faults>>
    /\ UNCHANGED <<bowls, bowl_finishes, bowl_images, idSeq, storage>>
    /\ EditFrame

\* the delete of the bowl's finishes came back
EditSubmit_FinishesDeleted(ok) ==
    /\ editPc = "deleteFinishes"
    /\ Outcome(ok)
    /\ net' = Append(net, Req("delete", "bowl_finishes", ok, 0))
    /\ bowl_finishes' = IF ok THEN {r \in bowl_finishes : r.bowl_id # TheBowl}
                        ELSE bowl_finishes
    /\ editPc' = IF Len(editFinishes) > 0 THEN "insertFinishes" ELSE "selectImages"
    /\ UNCHANGED <<editImages, editFinishes, pendingReads, uploadError, orderChanged,
                   editLoading, editToasts, submitted, imagesToDelete, editIdx,
                   uploadedCount, uploadErrors, editPicked, editMoves>>
    /\ UNCHANGED <<bowls, bowl_images, idSeq, storage>>
    /\ EditFrame

\* the insert of the form's finishes came back
\* (a row that repeats a stored (bowl_id, finish_name) violates the UNIQUE
\* constraint of bowl_finishes: the whole insert is refused)
EditSubmit_FinishesInserted(ok) ==
    /\ editPc = "insertFinishes"
    /\ IF FinishConflict(TheBowl, editFinishes)
       THEN ~ok /\ UNCHANGED faults
       ELSE Outcome(ok)
    /\ net' = Append(net, Req("insert", "bowl_finishes", ok, 0))
    /\ bowl_finishes' =
          IF ok THEN bowl_finishes \cup
                     { [bowl_id |-> TheBowl, finish_name |-> f] : f \in Range(editFinishes) }
          ELSE bowl_finishes
    /\ editPc' = "selectImages"
    /\ UNCHANGED <<editImages, editFinishes, pendingReads, uploadError, orderChanged,
                   editLoading, editToasts, submitted, imagesToDelete, editIdx,
                   uploadedCount, uploadErrors, editPicked, editMoves>>
    /\ UNCHANGED <<bowls, bowl_images, idSeq, storage>>
    /\ EditFrame

\* the select of the bowl's image rows came back: the rows whose id the
\* form no longer holds are to be deleted
EditSubmit_ImagesSelected(ok) ==
    /\ editPc = "selectImages"
    /\ Outcome(ok)
    /\ net' = Append(net, Req("select", "bowl_images", ok, 0))
    /\ LET existingImageIds == {im.id : im \in Range(nonNewImagesOf(submitted))}
           currentImages == {r \in bowl_images : r.bowl_id = TheBowl}
           gone == OrderedBy({r \in currentImages : r.id \notin existingImageIds}, "id")
           dels == IF ok
                   THEN [k \in DOMAIN gone |->
                           [id |-> gone[k].id, storage_path |-> gone[k].storage_path]]
                   ELSE <<>>
       IN  /\ imagesToDelete' = dels
           /\ EnterDelete(1, dels)
    /\ UNCHANGED <<editImages, editFinishes, pendingReads, uploadError, orderChanged,
                   editLoading, submitted, editPicked, editMoves>>
    /\ UNCHANGED <<bowls, bowl_finishes, bowl_images, idSeq, storage>>
    /\ EditFrame

\* deleteImage(img.storage_path): deleteImageSet of that one path came back
EditDelete_BlobRemoved(ok) ==
    /\ editPc = "removeBlob"
    /\ Outcome(ok)
    /\ LET validPaths == << imagesToDelete[editIdx].storage_path >>
       IN  /\ net' = Append(net, Req("remove", validPaths, ok, imagesToDelete[editIdx].id))
           /\ storage' = IF ok THEN Removed(storage, validPaths) ELSE storage
    /\ editPc' = "deleteRow"
    /\ UNCHANGED <<editImages, editFinishes, pendingReads, uploadError, orderChanged,
                   editLoading, editToasts, submitted, imagesToDelete, editIdx,
                   uploadedCount, uploadErrors, editPicked, editMoves>>
    /\ UNCHANGED <<bowls, bowl_finishes, bowl_images, idSeq>>
    /\ EditFrame

\* the delete of the row came back
EditDelete_RowDeleted(ok) ==
    /\ editPc = "deleteRow"
    /\ Outcome(ok)
    /\ net' = Append(net, Req("delete", "bowl_images", ok, imagesToDelete[editIdx].id))
    /\ bowl_images' = IF ok THEN {r \in bowl_images : r.id # imagesToDelete[editIdx].id}
                      ELSE bowl_images
    /\ EnterDelete(editIdx + 1, imagesToDelete)
    /\ UNCHANGED <<editImages, editFinishes, pendingReads, uploadError, orderChanged,
                   editLoading, submitted, imagesToDelete, editPicked, editMoves>>
    /\ UNCHANGED <<bowls, bowl_finishes, idSeq, storage>>
    /\ EditFrame

\* uploadImage(newImages[i].url, bowl.id) came back
EditUpload_Stored(ok) ==
    /\ editPc = "upload"
    /\ Outcome(ok)
    /\ LET path == legacyPath(TheBowl, LegacyUploads + 1)
       IN  /\ net' = Append(net, Req("upload", path, ok, newImagesOf(submitted)[editIdx].url))
           /\ storage' = IF ok THEN storage \cup {path} ELSE storage
    /\ IF ok
       THEN /\ editPc' = "insertImage"
            /\ UNCHANGED <<uploadError, editIdx, uploadedCount, uploadErrors, editToasts>>
       ELSE /\ uploadError' = "Failed to upload image"
            /\ EnterUpload(editIdx + 1, uploadedCount, uploadErrors + 1)
    /\ UNCHANGED <<editImages, editFinishes, pendingReads, orderChanged, editLoading,
                   submitted, imagesToDelete, editPicked, editMoves>>
    /\ UNCHANGED <<bowls, bowl_finishes, bowl_images, idSeq>>
    /\ EditFrame

\* the insert of the new image's row came back
EditUpload_RowInserted(ok) ==
    /\ editPc = "insertImage"
    /\ Outcome(ok)
    /\ LET uploadResult == uploadResultOf(legacyPath(TheBowl, LegacyUploads))
           index == (editIdx - 1) + (Len(submitted) - Len(newImagesOf(submitted)))
           row == LegacyImageRecord(TheBowl, uploadResult, index)
       IN  /\ net' = Append(net, Req("insert", "bowl_images", ok,
                                     newImagesOf(submitted)[editIdx].url))
           /\ bowl_images' = IF ok THEN bowl_images \cup {WithId(row, idSeq + 1)}
                             ELSE bowl_images
           /\ idSeq' = IF ok THEN idSeq + 1 ELSE idSeq
    /\ EnterUpload(editIdx + 1, IF ok THEN uploadedCount + 1 ELSE uploadedCount,
                   IF ok THEN uploadErrors ELSE uploadErrors + 1)
    /\ UNCHANGED <<editImages, editFinishes, pendingReads, uploadError, orderChanged,
                   editLoading, submitted, imagesToDelete, editPicked, editMoves>>
    /\ UNCHANGED <<bowls, bowl_finishes, storage>>
    /\ EditFrame

\* update({ display_order: i }) of nonNewImages[i] came back
EditOrder_Updated(ok) ==
    /\ editPc = "order"
    /\ Outcome(ok)
    /\ LET id == nonNewImagesOf(submitted)[editIdx].id
       IN  /\ net' = Append(net, Req("update", "bowl_images", ok, id))
           /\ bowl_images' =
                 IF ok THEN { IF r.id = id THEN [r EXCEPT !.display_order = editIdx - 1]
                              ELSE r : r \in bowl_images }
                 ELSE bowl_images
    /\ EnterOrder(editIdx + 1, uploadedCount, uploadErrors)
    /\ UNCHANGED <<editImages, editFinishes, pendingReads, uploadError, orderChanged,
                   editLoading, submitted, imagesToDelete, editPicked, editMoves>>
    /\ UNCHANGED <<bowls, bowl_finishes, idSeq, storage>>
    /\ EditFrame

EditFormIdle ==
    /\ editImages = <<>>
    /\ editFinishes = <<>>
    /\ pendingReads = {}
    /\ uploadError = NoError
    /\ orderChanged = FALSE
    /\ editLoading = FALSE
    /\ editToasts = <<>>
    /\ editPc = "idle"
    /\ submitted = <<>>
    /\ imagesToDelete = <<>>
    /\ editIdx = 0
    /\ uploadedCount = 0
    /\ uploadErrors = 0
    /\ editPicked = 0
    /\ editMoves = 0

EditIdle == EditFormIdle /\ faults = 0

(***************************************************************************)
(* The detail page: mapDatabaseBowlToFrontend (src/lib/supabase.ts),       *)
(* moveImage, handleDragEnd, saveImageOrder, handleDeleteImage             *)
(* (src/app/bowl/[id]/page.tsx). One of saveImageOrder and                 *)
(* handleDeleteImage runs at a time, and the user moves images in between. *)
(***************************************************************************)
\* a || b for the columns of a row
OrElse(a, b) == IF a = Null THEN b ELSE a

\* getImageUrls: the best URL the row has for each size
getImageUrls(image) ==
    [ thumbnail |-> OrElse(image.thumbnail_url, image.image_url),
      medium |-> OrElse(image.medium_url, image.image_url),
      full |-> OrElse(image.full_url, image.image_url),
      original |-> OrElse(image.original_url, image.image_url) ]

\* mapDatabaseBowlToFrontend: the image the pages show for a row
processedImageOf(row) ==
    [ id |-> row.id,
      thumbnail |-> getImageUrls(row).thumbnail,
      medium |-> getImageUrls(row).medium,
      full |-> getImageUrls(row).full,
      original |-> getImageUrls(row).original,
      dimensions |-> row.original_dimensions,
      fileSize |-> row.file_size ]

\* the fields handleDeleteImage collects paths from, in its order
pathFields == <<"thumbnail_path", "medium_path", "full_path", "original_path", "storage_path">>

\* handleDeleteImage's pathsToDelete: the path fields the image has
RECURSIVE collectPaths(_, _)
collectPaths(image, fields) ==
    IF fields = <<>> THEN <<>>
    ELSE (IF Head(fields) \in DOMAIN image /\ image[Head(fields)] # Null
          THEN << image[Head(fields)] >> ELSE <<>>)
         \o collectPaths(image, Tail(fields))

DetailInit ==
    /\ \E n \in 0..MaxExisting, fin \in FinishLists :
          /\ StoredBowl(n, fin)
          /\ detailImages =
                [k \in 1..n |-> processedImageOf(OrderedBy(bowl_images, "display_order")[k])]
    /\ detailOrderChanged = FALSE
    /\ detailToasts = <<>>
    /\ detailPc = "idle"
    /\ imageIds = <<>>
    /\ detailIdx = 0
    /\ imageToDeleteIndex = 0
    /\ detailMoves = 0
    /\ imagePaths = <<>>
    /\ faults = 0

\* moveImage(currentIndex, direction), by the arrow buttons
DetailMoveImage(currentIndex, direction) ==
    /\ detailPc = "idle"
    /\ detailMoves < MaxMoves
    /\ currentIndex \in DOMAIN detailImages
    /\ Len(detailImages) > 1
    /\ LET newIndex == IF direction = "left"
                       THEN IF currentIndex - 1 > 1 THEN currentIndex - 1 ELSE 1
                       ELSE IF currentIndex + 1 < Len(detailImages) THEN currentIndex + 1
                            ELSE Len(detailImages)
       IN  /\ newIndex # currentIndex
           /\ detailImages' = arrayMove(detailImages, currentIndex, newIndex)
    /\ detailMoves' = detailMoves + 1
    /\ detailOrderChanged' = TRUE
    /\ UNCHANGED <<detailToasts, detailPc, imageIds, detailIdx, imageToDeleteIndex, faults>>
    /\ UNCHANGED dbVars
    /\ UNCHANGED imagePaths
    /\ DetailFrame

\* handleDragEnd: image oldIndex dropped on image newIndex
DetailDragEnd(oldIndex, newIndex) ==
    /\ detailPc = "idle"
    /\ detailMoves < MaxMoves
    /\ oldIndex \in DOMAIN detailImages /\ newIndex \in DOMAIN detailImages
    /\ detailImages[oldIndex].id # detailImages[newIndex].id
    /\ detailMoves' = detailMoves + 1
    /\ detailImages' = arrayMove(detailImages, oldIndex, newIndex)
    /\ detailOrderChanged' = TRUE
    /\ detailToasts' = Append(detailToasts, Toast("Image Reordered", "default"))
    /\ UNCHANGED <<detailPc, imageIds, detailIdx, imageToDeleteIndex, faults>>
    /\ UNCHANGED dbVars
    /\ UNCHANGED imagePaths
    /\ DetailFrame

\* a loop that passes over one id
SaveFrom_SkipOne(k, ids) ==
    /\ detailIdx' = k + 1
    /\ IF k + 1 <= Len(ids)
       THEN /\ detailPc' = "saving"
            /\ UNCHANGED <<detailToasts, detailOrderChanged>>
       ELSE /\ detailPc' = "idle"
            /\ detailToasts' = Append(detailToasts, Toast("Order Saved", "default"))
            /\ detailOrderChanged' = FALSE

\* saveImageOrder's loop from index k on: past the last id the success toast
SaveFrom(k, ids) ==
    /\ detailIdx' = k
    /\ IF k <= Len(ids)
       THEN /\ detailPc' = "saving"
            /\ UNCHANGED <<detailToasts, detailOrderChanged>>
       ELSE /\ detailPc' = "idle"
            /\ detailToasts' = Append(detailToasts, Toast("Order Saved", "default"))
            /\ detailOrderChanged' = FALSE

\* saveImageOrder up to its first await; the button shows once the order
\* has changed
SaveImageOrder_Begin ==
    /\ detailPc = "idle"
    /\ detailOrderChanged
    /\ imageIds' = [k \in DOMAIN detailImages |-> detailImages[k].id]
    /\ SaveFrom(1, [k \in DOMAIN detailImages |-> detailImages[k].id])
    /\ UNCHANGED <<detailImages, imageToDeleteIndex, detailMoves, faults>>
    /\ UNCHANGED dbVars
    /\ UNCHANGED imagePaths
    /\ DetailFrame

\* the update of imageIds[i] came back
SaveImageOrder_Updated(ok) ==
    /\ detailPc = "saving"
    /\ Outcome(ok)
    /\ net' = Append(net, Req("update", "bowl_images", ok, imageIds[detailIdx]))
    /\ IF ok
       THEN /\ bowl_images' =
                 { IF r.id = imageIds[detailIdx]
                   THEN [r EXCEPT !.display_order = detailIdx - 1]
                   ELSE r : r \in bowl_images }
            /\ SaveFrom(detailIdx + 1, imageIds)
       ELSE /\ bowl_images' = bowl_images
            /\ detailToasts' = Append(detailToasts, Toast("Error", "destructive"))
            /\ detailPc' = "idle"
            /\ UNCHANGED <<detailIdx, detailOrderChanged>>
    /\ UNCHANGED <<detailImages, imageIds, imageToDeleteIndex, detailMoves>>
    /\ UNCHANGED <<bowls, bowl_finishes, idSeq, storage>>
    /\ UNCHANGED imagePaths
    /\ DetailFrame

\* openDeleteDialog(index) and handleDeleteImage up to the delete of the
\* row: deleteImageSet is called only with paths to delete, and its outcome
\* is not looked at
HandleDeleteImage_Begin(index, ok) ==
    /\ detailPc = "idle"
    /\ index \in DOMAIN detailImages
    /\ imageToDeleteIndex' = index
    /\ LET validPaths == collectPaths(detailImages[index], pathFields)
       IN  IF Len(validPaths) > 0
           THEN /\ Outcome(ok)
                /\ net' = Append(net, Req("remove", validPaths, ok, detailImages[index].id))
                /\ storage' = IF ok THEN Removed(storage, validPaths) ELSE storage
           ELSE /\ ok
                /\ UNCHANGED <<net, storage, faults>>
    /\ detailPc' = "deleteRow"
    /\ UNCHANGED <<detailImages, detailOrderChanged, detailToasts, imageIds, detailIdx,
                   detailMoves>>
    /\ UNCHANGED <<bowls, bowl_finishes, bowl_images, idSeq>>
    /\ UNCHANGED imagePaths
    /\ DetailFrame

\* the delete of the row came back: the image leaves the page, or the
\* error toast
HandleDeleteImage_RowDeleted(ok) ==
    /\ detailPc = "deleteRow"
    /\ Outcome(ok)
    /\ net' = Append(net, Req("delete", "bowl_images", ok, detailImages[imageToDeleteIndex].id))
    /\ IF ok
       THEN /\ bowl_images' =
                 {r \in bowl_images : r.id # detailImages[imageToDeleteIndex].id}
            /\ detailImages' = Without(detailImages, imageToDeleteIndex)
            /\ detailToasts' = Append(detailToasts, Toast("Image Deleted", "default"))
            /\ detailOrderChanged' = TRUE
       ELSE /\ bowl_images' = bowl_images
            /\ detailImages' = detailImages
            /\ detailToasts' = Append(detailToasts, Toast("Error", "destructive"))
            /\ detailOrderChanged' = detailOrderChanged
    /\ imageToDeleteIndex' = 0
    /\ detailPc' = "idle"
    /\ UNCHANGED <<imageIds, detailIdx, detailMoves>>
    /\ UNCHANGED <<bowls, bowl_finishes, idSeq, storage>>
    /\ UNCHANGED imagePaths
    /\ DetailFrame

\* getBowlImagePaths on the rows the select returned: every path column
\* that is set, storage_path included
RECURSIVE pathsOfRows(_)
pathsOfRows(rows) ==
    IF rows = <<>> THEN <<>>
    ELSE collectPaths(Head(rows), pathFields) \o pathsOfRows(Tail(rows))

\* handleDelete up to the answer of getBowlImagePaths' select: a failed
\* select gives no paths
HandleDelete_PathsSelected(ok) ==
    /\ detailPc = "idle"
    /\ TheBowl \in bowls
    /\ Outcome(ok)
    /\ net' = Append(net, Req("select", "bowl_images", ok, 0))
    /\ LET paths == IF ok
                    THEN pathsOfRows(OrderedBy({r \in bowl_images : r.bowl_id = TheBowl}, "id"))
                    ELSE <<>>
       IN  /\ imagePaths' = paths
           /\ detailPc' = IF Len(paths) > 0 THEN "removeBlobs" ELSE "deleteBowl"
    /\ UNCHANGED <<detailImages, detailOrderChanged, detailToasts, imageIds, detailIdx,
                   imageToDeleteIndex, detailMoves>>
    /\ UNCHANGED <<bowls, bowl_finishes, bowl_images, idSeq, storage>>
    /\ DetailFrame

\* deleteImageSet(imagePaths) came back: its result is not looked at
HandleDelete_BlobsRemoved(ok) ==
    /\ detailPc = "removeBlobs"
    /\ Outcome(ok)
    /\ net' = Append(net, Req("remove", imagePaths, ok, 0))
    /\ storage' = IF ok THEN Removed(storage, imagePaths) ELSE storage
    /\ detailPc' = "deleteBowl"
    /\ UNCHANGED <<detailImages, detailOrderChanged, detailToasts, imageIds, detailIdx,
                   imageToDeleteIndex, detailMoves, imagePaths>>
    /\ UNCHANGED <<bowls, bowl_finishes, bowl_images, idSeq>>
    /\ DetailFrame

\* the delete of the bowl row came back: the rows of bowl_finishes and of
\* bowl_images go with it (ON DELETE CASCADE) and the page is left, or the
\* error toast
HandleDelete_BowlDeleted(ok) ==
    /\ detailPc = "deleteBowl"
    /\ Outcome(ok)
    /\ net' = Append(net, Req("delete", "bowls", ok, 0))
    /\ IF ok
       THEN /\ bowls' = bowls \ {TheBowl}
            /\ bowl_finishes' = {r \in bowl_finishes : r.bowl_id # TheBowl}
            /\ bowl_images' = {r \in bowl_images : r.bowl_id # TheBowl}
            /\ detailToasts' = Append(detailToasts, Toast("Bowl Deleted", "default"))
            /\ detailPc' = "deleted"
       ELSE /\ UNCHANGED <<bowls, bowl_finishes, bowl_images>>
            /\ detailToasts' = Append(detailToasts, Toast("Error", "destructive"))
            /\ detailPc' = "idle"
    /\ imagePaths' = <<>>
    /\ UNCHANGED <<detailImages, detailOrderChanged, imageIds, detailIdx,
                   imageToDeleteIndex, detailMoves>>
    /\ UNCHANGED <<idSeq, storage>>
    /\ DetailFrame

DetailIdle ==
    /\ detailImages = <<>>
    /\ detailOrderChanged = FALSE
    /\ detailToasts = <<>>
    /\ detailPc = "idle"
    /\ imageIds = <<>>
    /\ detailIdx = 0
    /\ imageToDeleteIndex = 0
    /\ detailMoves = 0
    /\ imagePaths = <<>>

(***************************************************************************)
(* The camera import of the add page: loadCapturedImages                   *)
(* (src/app/add/page.tsx), and the add form fed by the upload component    *)
(* and the camera import, then submitted; the insert of the bowl row       *)
(* succeeds here, its failure is followed under SpecAdd                    *)
(***************************************************************************)
\* the File loadCapturedImages makes of photo number k: the type is set to
\* image/jpeg, the size is the blob's
CameraFile(k) == PickedFile(200 + k, Mime("image", "jpeg"), 2000 + k, "good")

CamIdle == capturedImages = <<>>

\* loadCapturedImages on mount, with photos in session storage: every photo
\* goes through processImage, the list replaces the form's images, the item
\* is removed
LoadCapturedImages ==
    /\ capturedImages # <<>>
    /\ images' = [k \in DOMAIN capturedImages |-> ImageDataOf(capturedImages[k])]
    /\ capturedImages' = <<>>
    /\ toasts' = Append(toasts, Toast("Camera Photos Loaded", "default"))
    /\ UNCHANGED <<user, finishes, loading, debugInfo, addPc, submits, bowlId,
                   i, sizeIdx, results, calls>>
    /\ UNCHANGED <<valVars, dimVars, dbVars, selVars, editVars, detailVars, finVars, extVars>>

\* the add page opened by a signed-in user, with or without photos from the
\* camera page, which puts no limit on their number
PipelineInit ==
    /\ capturedImages \in { [k \in 1..n |-> CameraFile(k)] :
                                n \in {0, MaxCaptured, maxImages + 1} }
    /\ user = TRUE
    /\ images = <<>>
    /\ finishes = <<>>
    /\ loading = FALSE
    /\ debugInfo = <<>>
    /\ toasts = <<>>
    /\ addPc = "idle"
    /\ submits = 0
    /\ bowlId = NoBowl
    /\ i = 0
    /\ sizeIdx = 0
    /\ results = <<>>
    /\ calls = <<>>

\* the user submits the form, with up to MaxImages images, once the photos
\* are loaded and no call of handleFileSelect is in flight
PipelineSubmit ==
    /\ capturedImages = <<>>
    /\ Len(images) <= MaxImages
    /\ \A n \in DOMAIN runs : runs[n].step \in {"done", "refused"}
    /\ AddSubmit_Begin

(***************************************************************************)
(* The finishes input: addFinish, removeFinish (src/app/add/page.tsx,      *)
(* src/app/bowl/[id]/edit/page.tsx). A name is the sequence of its         *)
(* characters.                                                             *)
(***************************************************************************)
Chars == {" ", "T", "D"}

\* the strings of up to n characters
StringsUpTo(n) == UNION { [1..m -> Chars] : m \in 0..n }

RECURSIVE trimStart(_)
trimStart(str) ==
    IF str # <<>> /\ Head(str) = " " THEN trimStart(Tail(str)) ELSE str

RECURSIVE trimEnd(_)
trimEnd(str) ==
    IF str # <<>> /\ str[Len(str)] = " " THEN trimEnd(SubSeq(str, 1, Len(str) - 1)) ELSE str

\* a trim that leaves the string as typed
trim_AsTyped(str) == str

\* String.prototype.trim
trim(str) == trimEnd(trimStart(str))

\* finishes.includes(name)
includes(list, name) == \E k \in DOMAIN list : list[k] = name

FinIdle ==
    /\ page = "none"
    /\ newFinish = <<>>
    /\ editNewFinish = <<>>
    /\ draft = NoDraft

\* the add page opened empty, or the edit page opened on a bowl whose
\* finishes were written by the application
FinishInit ==
    /\ newFinish = <<>>
    /\ editNewFinish = <<>>
    /\ draft = NoDraft
    /\ finishes = <<>>
    /\ \/ page = "add" /\ editFinishes = <<>>
       \/ page = "edit" /\ editFinishes \in { <<>>, << <<"T">>, <<"D">> >> }

FinishFrame ==
    UNCHANGED <<valVars, dimVars, dbVars, selVars, detailVars, camVars, extVars>>

AddPageRest ==
    UNCHANGED <<user, images, loading, debugInfo, toasts, addPc, submits, bowlId,
                i, sizeIdx, results, calls>>

EditPageRest ==
    UNCHANGED <<editImages, pendingReads, uploadError, orderChanged, editLoading,
                editToasts, editPc, submitted, imagesToDelete, editIdx, uploadedCount,
                uploadErrors, editPicked, editMoves, faults>>

\* typing into the finish input of the add page: setNewFinish(e.target.value)
TypeFinish(str) ==
    /\ page = "add"
    /\ newFinish' = str
    /\ UNCHANGED <<page, editNewFinish, draft, finishes, editFinishes>>
    /\ AddPageRest /\ EditPageRest /\ FinishFrame

\* addFinish of the add page, with saveFormDataToStorage
AddFinish ==
    /\ page = "add" /\ addPc # "done"
    /\ Len(finishes) < MaxFinishes
    /\ IF trim(newFinish) # <<>> /\ ~includes(finishes, trim(newFinish))
       THEN /\ finishes' = Append(finishes, trim(newFinish))
            /\ newFinish' = <<>>
            /\ draft' = saveFormDataToStorage(formData, Append(finishes, trim(newFinish)))
       ELSE UNCHANGED <<finishes, newFinish, draft>>
    /\ UNCHANGED <<page, editNewFinish, editFinishes>>
    /\ AddPageRest /\ EditPageRest /\ FinishFrame

\* removeFinish(finish) of the add page, with saveFormDataToStorage
RemoveFinish(finish) ==
    /\ page = "add" /\ addPc # "done"
    /\ finishes' = SelectSeq(finishes, LAMBDA f : f # finish)
    /\ draft' = saveFormDataToStorage(formData, SelectSeq(finishes, LAMBDA f : f # finish))
    /\ UNCHANGED <<page, newFinish, editNewFinish, editFinishes>>
    /\ AddPageRest /\ EditPageRest /\ FinishFrame

\* typing into the finish input of the edit page
EditTypeFinish(str) ==
    /\ page = "edit"
    /\ editNewFinish' = str
    /\ UNCHANGED <<page, newFinish, draft, finishes, editFinishes>>
    /\ AddPageRest /\ EditPageRest /\ FinishFrame

\* addFinish of the edit page
EditAddFinish ==
    /\ page = "edit"
    /\ Len(editFinishes) < MaxFinishes
    /\ IF trim(editNewFinish) # <<>> /\ ~includes(editFinishes, trim(editNewFinish))
       THEN /\ editFinishes' = Append(editFinishes, trim(editNewFinish))
            /\ editNewFinish' = <<>>
       ELSE UNCHANGED <<editFinishes, editNewFinish>>
    /\ UNCHANGED <<page, newFinish, draft, finishes>>
    /\ AddPageRest /\ EditPageRest /\ FinishFrame

\* removeFinish(finish) of the edit page
EditRemoveFinish(finish) ==
    /\ page = "edit"
    /\ editFinishes' = SelectSeq(editFinishes, LAMBDA f : f # finish)
    /\ UNCHANGED <<page, newFinish, editNewFinish, draft, finishes>>
    /\ AddPageRest /\ EditPageRest /\ FinishFrame

(***************************************************************************)
(* The form of the add page and its draft in localStorage                  *)
(* (src/app/add/page.tsx): handleInputChange, the restore prompt,          *)
(* restoreSavedData and dismissRestorePrompt                               *)
(***************************************************************************)
\* `new Date().toISOString().split("T")[0]` on the day of the visit
Today == <<"D">>

\* the initial state formData
DefaultForm ==
    [woodType |-> <<>>, woodSource |-> <<>>, dateMade |-> Today, comments |-> <<>>]

\* the fields the visitor types into, and what they type
TypedFields == {"woodType", "comments"}
TypedValues == { <<>>, <<" ">>, <<"T">> }

\* hasFormData(data, finishesData)
hasFormData(data, finishesData) ==
    \/ trim(data.woodType) # <<>>
    \/ trim(data.woodSource) # <<>>
    \/ trim(data.comments) # <<>>
    \/ Len(finishesData) > 0

\* loadFormDataFromStorage()
loadFormDataFromStorage ==
    IF draft.saved
    THEN [formData |-> draft.formData, finishes |-> draft.finishes]
    ELSE [formData |-> Null, finishes |-> <<>>]

\* what an earlier visit of the add page can have left in localStorage
EarlierDrafts ==
    { NoDraft,
      saveFormDataToStorage(DefaultForm, <<>>),
      saveFormDataToStorage([DefaultForm EXCEPT !.woodType = <<"T">>], << <<"D">> >>) }

FormIdle ==
    /\ formData = DefaultForm
    /\ showRestorePrompt = FALSE
    /\ savedDataToRestore = Null

\* the add page after its mount effect, opened without ?from=camera: the
\* form is empty, and a draft with something in it raises the restore prompt
FormInit ==
    /\ page = "add"
    /\ newFinish = <<>>
    /\ editNewFinish = <<>>
    /\ draft \in EarlierDrafts
    /\ formData = DefaultForm
    /\ finishes = <<>>
    /\ IF loadFormDataFromStorage.formData # Null
          /\ hasFormData(draft.formData, draft.finishes)
       THEN /\ savedDataToRestore = loadFormDataFromStorage
            /\ showRestorePrompt = TRUE
       ELSE /\ savedDataToRestore = Null
            /\ showRestorePrompt = FALSE

FormFrame ==
    UNCHANGED <<valVars, dimVars, dbVars, selVars, editVars, detailVars, camVars,
                altVars, swVars, authVars>>

\* handleInputChange on the field `name` with e.target.value = value, the
\* value of a change event being another one than the field holds
HandleInputChange(name, value) ==
    /\ page = "add" /\ addPc # "done"
    /\ value # formData[name]
    /\ formData' = [formData EXCEPT ![name] = value]
    /\ draft' = saveFormDataToStorage([formData EXCEPT ![name] = value], finishes)
    /\ UNCHANGED <<page, newFinish, editNewFinish, finishes, showRestorePrompt,
                   savedDataToRestore>>
    /\ AddPageRest /\ FormFrame

\* restoreSavedData, the Restore button of the prompt
RestoreSavedData ==
    /\ page = "add" /\ addPc # "done"
    /\ showRestorePrompt
    /\ IF savedDataToRestore # Null /\ savedDataToRestore.formData # Null
       THEN /\ formData' = savedDataToRestore.formData
            /\ finishes' = savedDataToRestore.finishes
            /\ showRestorePrompt' = FALSE
            /\ savedDataToRestore' = Null
            /\ toasts' = Append(toasts, Toast("Form Data Restored", "default"))
       ELSE UNCHANGED <<formData, finishes, showRestorePrompt, savedDataToRestore, toasts>>
    /\ UNCHANGED <<page, newFinish, editNewFinish, draft>>
    /\ UNCHANGED <<user, images, loading, debugInfo, addPc, submits, bowlId,
                   i, sizeIdx, results, calls>>
    /\ FormFrame

\* dismissRestorePrompt, the Discard button of the prompt
DismissRestorePrompt ==
    /\ page = "add" /\ addPc # "done"
    /\ showRestorePrompt
    /\ showRestorePrompt' = FALSE
    /\ savedDataToRestore' = Null
    /\ draft' = clearFormDataFromStorage
    /\ UNCHANGED <<page, newFinish, editNewFinish, formData, finishes>>
    /\ AddPageRest /\ FormFrame

(***************************************************************************)
(* uploadImageAlternative (src/lib/storage-alternative.ts): one upload      *)
(* tried in up to three ways. No page of the application calls it; it is    *)
(* an exported function of the storage library.                             *)
(***************************************************************************)
\* the base64Image arguments: a data URL of a JPEG or of a PNG, a string
\* without a comma, and one whose first part names no type
AltInputs ==
    { [meta |-> "data:image/jpeg;base64", data |-> TRUE],
      [meta |-> "data:image/png;base64", data |-> TRUE],
      [meta |-> "data:image/jpeg;base64", data |-> FALSE],
      [meta |-> "image/jpeg", data |-> TRUE] }

\* meta.match(/data:([^;]+)/) finds a type
mimeMatch(meta) == meta \in {"data:image/jpeg;base64", "data:image/png;base64"}

\* the number that stands for `${Date.now()}-${random}` of a call, and for
\* the call in the log (below zero: the calls of uploadImageSet count from 1)
altFileName == 0 - altCalls

\* `bowls/${bowlId}/${fileName}`
altFilePath(bowl, fileName) == [bowl |-> bowl, size |-> "flat", name |-> fileName]

\* `${bowlId}-${fileName}`: an object at the root of the bucket, in no
\* bowl's folder
simplePath(bowl, fileName) == [bowl |-> NoBowl, size |-> "root", name |-> fileName]

AltIdle ==
    /\ altPc = "idle"
    /\ altCalls = 0
    /\ altInput = Null
    /\ altResult = Null

AltFrame ==
    UNCHANGED <<valVars, dimVars, addVars, selVars, editVars, detailVars, camVars, finVars,
                swVars, authVars, formVars>>

\* uploadImageAlternative(base64Image, bowlId) up to its first upload: a
\* string that does not split or names no type throws at once
UploadImageAlternative_Begin(base64Image) ==
    /\ altPc = "idle"
    /\ altCalls < MaxAltCalls
    /\ altCalls' = altCalls + 1
    /\ altInput' = base64Image
    /\ IF base64Image.data /\ mimeMatch(base64Image.meta)
       THEN altPc' = "approach1" /\ altResult' = Null
       ELSE altPc' = "idle" /\ altResult' = [threw |-> TRUE]
    /\ UNCHANGED dbVars
    /\ AltFrame

\* Approach 1: upload(filePath, bytes, {contentType, upsert: true}) came back
UploadImageAlternative_Approach1(ok) ==
    /\ altPc = "approach1"
    /\ net' = Append(net, Req("upload", altFilePath(TheBowl, altFileName), ok, altFileName))
    /\ IF ok
       THEN /\ storage' = storage \cup {altFilePath(TheBowl, altFileName)}
            /\ altResult' = uploadResultOf(altFilePath(TheBowl, altFileName))
            /\ altPc' = "idle"
       ELSE /\ UNCHANGED <<storage, altResult>>
            /\ altPc' = "approach2"
    /\ UNCHANGED <<altCalls, altInput>>
    /\ UNCHANGED <<bowls, bowl_finishes, bowl_images, idSeq>>
    /\ AltFrame

\* Approach 2: upload(filePath, blob, {upsert: true}) came back
UploadImageAlternative_Approach2(ok) ==
    /\ altPc = "approach2"
    /\ net' = Append(net, Req("upload", altFilePath(TheBowl, altFileName), ok, altFileName))
    /\ IF ok
       THEN /\ storage' = storage \cup {altFilePath(TheBowl, altFileName)}
            /\ altResult' = uploadResultOf(altFilePath(TheBowl, altFileName))
            /\ altPc' = "idle"
       ELSE /\ UNCHANGED <<storage, altResult>>
            /\ altPc' = "approach3"
    /\ UNCHANGED <<altCalls, altInput>>
    /\ UNCHANGED <<bowls, bowl_finishes, bowl_images, idSeq>>
    /\ AltFrame

\* Approach 3: upload(simplePath, bytes, {contentType}) came back; after
\* three failures the last error is thrown
UploadImageAlternative_Approach3(ok) ==
    /\ altPc = "approach3"
    /\ net' = Append(net, Req("upload", simplePath(TheBowl, altFileName), ok, altFileName))
    /\ IF ok
       THEN /\ storage' = storage \cup {simplePath(TheBowl, altFileName)}
            /\ altResult' = uploadResultOf(simplePath(TheBowl, altFileName))
       ELSE /\ UNCHANGED storage
            /\ altResult' = [threw |-> TRUE]
    /\ altPc' = "idle"
    /\ UNCHANGED <<altCalls, altInput>>
    /\ UNCHANGED <<bowls, bowl_finishes, bowl_images, idSeq>>
    /\ AltFrame

(***************************************************************************)
(* The service worker (src/public/sw.js): install, activate and the fetch   *)
(* listener. A path is the sequence of its characters.                      *)
(***************************************************************************)
CACHE_VERSION == 2
STATIC_CACHE == [base |-> "bowl-tracker-static-v", version |-> CACHE_VERSION]
DYNAMIC_CACHE == [base |-> "bowl-tracker-dynamic-v", version |-> CACHE_VERSION]
\* "/manifest.json", written "/m"
STATIC_FILES == {<<"/", "m">>}

\* the caches an earlier version of the worker, or other code of the
\* origin, may have left
LeftOverCaches ==
    { [base |-> "bowl-tracker-static-v", version |-> CACHE_VERSION - 1],
      [base |-> "bowl-tracker-dynamic-v", version |-> CACHE_VERSION - 1],
      [base |-> "other", version |-> 0] }

\* String.prototype.startsWith
startsWith(str, prefix) ==
    Len(str) >= Len(prefix) /\ SubSeq(str, 1, Len(prefix)) = prefix

\* the paths requested: "/", "/bowl/1", "/bowls", "/api/x",
\* "/_next/a", "/i.png", "/m"
Paths ==
    { <<"/">>,
      <<"/", "m">>,
      <<"/", "b", "o", "w", "l", "/", "1">>,
      <<"/", "b", "o", "w", "l", "s">>,
      <<"/", "a", "p", "i", "/", "x">>,
      <<"/", "_", "n", "e", "x", "t", "/", "a">>,
      <<"/", "i", ".", "p", "n", "g">> }

\* the requests of the fetch events: navigations and subresources of the
\* origin, a POST, and a request to the backend's host
SwRequests ==
    { [method |-> "GET", origin |-> "self", hostname |-> "app", pathname |-> path,
       destination |-> dest] : path \in Paths, dest \in {"document", "image"} }
    \cup { [method |-> "POST", origin |-> "self", hostname |-> "app",
            pathname |-> <<"/">>, destination |-> "document"],
           [method |-> "GET", origin |-> "other", hostname |-> "x.supabase.co",
            pathname |-> <<"/">>, destination |-> "image"] }

\* the fetch listener returns without respondWith: the browser handles the
\* request as if there were no worker
skipped(request) ==
    \/ request.method # "GET"
    \/ request.origin # "self"
    \/ startsWith(request.pathname, <<"/", "a", "p", "i", "/">>)
    \/ startsWith(request.pathname, <<"/", "_", "n", "e", "x", "t", "/">>)
    \/ request.hostname = "x.supabase.co"

\* a strategy that takes no request for a page
networkFirst_Never(request) == FALSE

\* the test of the network-first branch
networkFirst(request) ==
    \/ request.destination = "document"
    \/ request.pathname = <<"/">>
    \/ startsWith(request.pathname, <<"/", "b", "o", "w", "l">>)

\* a test that only finds old static caches
isOld_StaticOnly(cacheName) ==
    cacheName.base = "bowl-tracker-static-v" /\ cacheName # STATIC_CACHE

\* the test of the activate listener: a cache to delete
isOld(cacheName) == cacheName # STATIC_CACHE /\ cacheName # DYNAMIC_CACHE

\* caches.match(request): some cache holds an entry for the request's URL
cached(request) == \E name \in DOMAIN cacheStore : request.pathname \in cacheStore[name]

\* the cache store with entries for the URLs put into the cache of that name, which
\* caches.open creates if need be
WithPut(store, name, requests) ==
    [n \in DOMAIN store \cup {name} |->
        IF n = name THEN (IF n \in DOMAIN store THEN store[n] ELSE {}) \cup requests
        ELSE store[n]]

Response(from, status) == [from |-> from, status |-> status]

SwFetchIdle ==
    /\ swRequest = Null
    /\ swStep = "idle"
    /\ swNetwork = "none"
    /\ swResponse = Null
    /\ pendingPuts = {}
    /\ swFetches = 0

SwIdle ==
    /\ swState = "parsed"
    /\ cacheStore = <<>>
    /\ cacheNames = {}
    /\ deleting = {}
    /\ SwFetchIdle

\* the worker script was fetched; the origin may hold caches from before
SwInit ==
    /\ swState = "parsed"
    /\ \E names \in SUBSET (LeftOverCaches \cup {DYNAMIC_CACHE}) :
          cacheStore = [n \in names |-> {}]
    /\ cacheNames = {}
    /\ deleting = {}
    /\ SwFetchIdle

SwFrame ==
    UNCHANGED <<valVars, dimVars, dbVars, addVars, selVars, editVars, detailVars, camVars,
                finVars, altVars, authVars, formVars>>

\* the install listener: the static cache is opened and filled; a failed
\* addAll is only logged
Install(ok) ==
    /\ swState = "parsed"
    /\ cacheStore' = WithPut(cacheStore, STATIC_CACHE, IF ok THEN STATIC_FILES ELSE {})
    /\ swState' = "installed"
    /\ UNCHANGED <<cacheNames, deleting, swRequest, swStep, swNetwork, swResponse,
                   pendingPuts, swFetches>>
    /\ SwFrame

\* the activate listener up to the answer of caches.keys(): a delete is
\* started for each old cache
Activate_Keys ==
    /\ swState = "installed"
    /\ cacheNames' = DOMAIN cacheStore
    /\ deleting' = {name \in DOMAIN cacheStore : isOld(name)}
    /\ swState' = "activating"
    /\ UNCHANGED <<cacheStore, swRequest, swStep, swNetwork, swResponse, pendingPuts,
                   swFetches>>
    /\ SwFrame

\* one caches.delete(cacheName) settled
Activate_Deleted(cacheName) ==
    /\ swState = "activating"
    /\ cacheName \in deleting
    /\ deleting' = deleting \ {cacheName}
    /\ cacheStore' = [n \in DOMAIN cacheStore \ {cacheName} |-> cacheStore[n]]
    /\ UNCHANGED <<swState, cacheNames, swRequest, swStep, swNetwork, swResponse,
                   pendingPuts, swFetches>>
    /\ SwFrame

\* Promise.all settled: clients.claim(), the worker is active
Activate_Claim ==
    /\ swState = "activating"
    /\ deleting = {}
    /\ swState' = "activated"
    /\ UNCHANGED <<cacheStore, cacheNames, deleting, swRequest, swStep, swNetwork,
                   swResponse, pendingPuts, swFetches>>
    /\ SwFrame

\* a fetch event reaches the active worker: it is left to the browser, or
\* goes to the network first, or to the caches first
FetchEvent(request) ==
    /\ swState = "activated"
    /\ swStep \in {"idle", "answered"}
    /\ swFetches < MaxFetches
    /\ swFetches' = swFetches + 1
    /\ swRequest' = request
    /\ swNetwork' = "none"
    /\ swResponse' = Null
    /\ swStep' = IF skipped(request) THEN "browser"
                 ELSE IF networkFirst(request) THEN "network" ELSE "match"
    /\ UNCHANGED <<swState, cacheStore, cacheNames, deleting, pendingPuts>>
    /\ SwFrame

\* a request the worker left alone: the browser's own fetch came back
Browser_Fetched(ok, status) ==
    /\ swStep = "browser"
    /\ swNetwork' = IF ok THEN "responded" ELSE "failed"
    /\ swResponse' = IF ok THEN Response("network", status) ELSE Response("error", 0)
    /\ swStep' = "answered"
    /\ UNCHANGED <<swState, cacheStore, cacheNames, deleting, swRequest, pendingPuts,
                   swFetches>>
    /\ SwFrame

\* network first: fetch(request) resolved; a 200 is also put into the
\* dynamic cache, later
NetworkFirst_Responded(status) ==
    /\ swStep = "network"
    /\ swNetwork' = "responded"
    /\ swResponse' = Response("network", status)
    /\ pendingPuts' = IF status = 200 THEN pendingPuts \cup {swRequest} ELSE pendingPuts
    /\ swStep' = "answered"
    /\ UNCHANGED <<swState, cacheStore, cacheNames, deleting, swRequest, swFetches>>
    /\ SwFrame

\* network first: fetch(request) rejected; caches.match is asked
NetworkFirst_Failed ==
    /\ swStep = "network"
    /\ swNetwork' = "failed"
    /\ swStep' = "fallback"
    /\ UNCHANGED <<swState, cacheStore, cacheNames, deleting, swRequest, swResponse,
                   pendingPuts, swFetches>>
    /\ SwFrame

\* network first: caches.match(request) resolved: the copy, or 503 Offline
NetworkFirst_Fallback ==
    /\ swStep = "fallback"
    /\ swResponse' = IF cached(swRequest) THEN Response("cache", 200)
                     ELSE Response("offline", 503)
    /\ swStep' = "answered"
    /\ UNCHANGED <<swState, cacheStore, cacheNames, deleting, swRequest, swNetwork,
                   pendingPuts, swFetches>>
    /\ SwFrame

\* cache first: caches.match(request) resolved: the copy, or on to the
\* network
CacheFirst_Matched ==
    /\ swStep = "match"
    /\ IF cached(swRequest)
       THEN swResponse' = Response("cache", 200) /\ swStep' = "answered"
       ELSE swResponse' = swResponse /\ swStep' = "network2"
    /\ UNCHANGED <<swState, cacheStore, cacheNames, deleting, swRequest, swNetwork,
                   pendingPuts, swFetches>>
    /\ SwFrame

\* cache first: fetch(request) came back: the response (a 200 is put into
\* the dynamic cache, later), or 503 Offline
CacheFirst_Fetched(ok, status) ==
    /\ swStep = "network2"
    /\ swNetwork' = IF ok THEN "responded" ELSE "failed"
    /\ swResponse' = IF ok THEN Response("network", status) ELSE Response("offline", 503)
    /\ pendingPuts' = IF ok /\ status = 200 THEN pendingPuts \cup {swRequest}
                      ELSE pendingPuts
    /\ swStep' = "answered"
    /\ UNCHANGED <<swState, cacheStore, cacheNames, deleting, swRequest, swFetches>>
    /\ SwFrame

\* caches.open(DYNAMIC_CACHE).then(cache => cache.put(request, copy)) done
CachePut(request) ==
    /\ request \in pendingPuts
    /\ pendingPuts' = pendingPuts \ {request}
    /\ cacheStore' = WithPut(cacheStore, DYNAMIC_CACHE, {request.pathname})
    /\ UNCHANGED <<swState, cacheNames, deleting, swRequest, swStep, swNetwork,
                   swResponse, swFetches>>
    /\ SwFrame

(***************************************************************************)
(* AuthProvider (src/components/auth/auth-provider.tsx): the initial        *)
(* session lookup, the auth listener and signOut. The auth client is the    *)
(* environment: it holds the session, emits the events and answers          *)
(* getSession some time after it was asked.                                 *)
(***************************************************************************)
TheUser == [id |-> "owner"]

AuthEvent(event, sess) == [event |-> event, session |-> sess]

\* session?.user ?? null
userOf(sess) == IF sess = Null THEN Null ELSE sess.user

\* the listener's setUser for an event
listenerUser(e) ==
    IF e.event = "SIGNED_OUT" THEN Null
    ELSE IF e.event \in {"SIGNED_IN", "TOKEN_REFRESHED"} THEN userOf(e.session)
    ELSE userOf(e.session)

AuthIdle ==
    /\ authUser = Null
    /\ authLoading = TRUE
    /\ session = Null
    /\ authEvents = <<>>
    /\ handled = <<>>
    /\ lookupPc = "done"
    /\ lookupValue = Null
    /\ signOutPc = "idle"
    /\ restoreValue = Null
    /\ emitted = 0
    /\ signOuts = 0

\* the provider has mounted: getInitialSession is on its way and the
\* listener is subscribed; a session may be there from an earlier visit
AuthInit ==
    /\ authUser = Null
    /\ authLoading = TRUE
    /\ session \in {Null, [user |-> TheUser]}
    /\ authEvents = <<>>
    /\ handled = <<>>
    /\ lookupPc = "pending"
    /\ lookupValue = Null
    /\ signOutPc = "idle"
    /\ restoreValue = Null
    /\ emitted = 0
    /\ signOuts = 0

AuthFrame ==
    UNCHANGED <<valVars, dimVars, dbVars, addVars, selVars, editVars, detailVars,
                finVars, altVars, swVars, formVars>>

\* the auth client: a sign-in, a sign-out or a token refresh, in this tab's
\* client or passed on from another tab, changes the session and emits its
\* event
ClientEvent(event) ==
    /\ emitted < MaxAuthEvents
    /\ emitted' = emitted + 1
    /\ signOutPc \in {"idle", "calling", "restoring", "restored"}
    /\ CASE event = "SIGNED_IN" ->
              /\ session = Null
              /\ session' = [user |-> TheUser]
         [] event = "SIGNED_OUT" ->
              /\ session # Null
              /\ session' = Null
         [] OTHER ->
              /\ session # Null
              /\ session' = session
    /\ authEvents' = Append(authEvents, AuthEvent(event, session'))
    /\ UNCHANGED <<authUser, authLoading, handled, lookupPc, lookupValue, signOutPc,
                   restoreValue, signOuts, capturedImages>>
    /\ AuthFrame

\* getInitialSession: getSession reads the session
GetInitialSession_Read(ok) ==
    /\ lookupPc = "pending"
    /\ lookupPc' = "read"
    /\ lookupValue' = IF ok THEN [threw |-> FALSE, session |-> session]
                      ELSE [threw |-> TRUE, session |-> Null]
    /\ UNCHANGED <<authUser, authLoading, session, authEvents, handled, signOutPc,
                   restoreValue, emitted, signOuts, capturedImages>>
    /\ AuthFrame

\* getInitialSession after its await: setUser, setLoading(false)
GetInitialSession_Resolved ==
    /\ lookupPc = "read"
    /\ lookupPc' = "done"
    /\ authUser' = IF lookupValue.threw THEN Null ELSE userOf(lookupValue.session)
    /\ authLoading' = FALSE
    /\ UNCHANGED <<session, authEvents, handled, lookupValue, signOutPc, restoreValue,
                   emitted, signOuts, capturedImages>>
    /\ AuthFrame

\* the callback of onAuthStateChange for the oldest event not yet handled;
\* SIGNED_OUT also clears the session storage
AuthListener ==
    /\ authEvents # <<>>
    /\ authUser' = listenerUser(Head(authEvents))
    /\ capturedImages' = IF Head(authEvents).event = "SIGNED_OUT" THEN <<>>
                         ELSE capturedImages
    /\ authLoading' = FALSE
    /\ handled' = Append(handled, Head(authEvents).event)
    /\ authEvents' = Tail(authEvents)
    /\ UNCHANGED <<session, lookupPc, lookupValue, signOutPc, restoreValue, emitted,
                   signOuts>>
    /\ AuthFrame

\* signOut up to its await of auth.signOut()
SignOut_Begin ==
    /\ signOutPc = "idle"
    /\ authUser # Null
    /\ signOuts < MaxSignOuts
    /\ signOuts' = signOuts + 1
    /\ authLoading' = TRUE
    /\ authUser' = Null
    /\ signOutPc' = "calling"
    /\ UNCHANGED <<session, authEvents, handled, lookupPc, lookupValue, restoreValue,
                   emitted, capturedImages>>
    /\ AuthFrame

\* auth.signOut() ended the session: the client emits SIGNED_OUT, and
\* signOut goes on once the listeners are through
SignOut_SignedOut ==
    /\ signOutPc = "calling"
    /\ session' = Null
    /\ authEvents' = Append(authEvents, AuthEvent("SIGNED_OUT", Null))
    /\ signOutPc' = "cleanup"
    /\ UNCHANGED <<authUser, authLoading, handled, lookupPc, lookupValue, restoreValue,
                   emitted, signOuts, capturedImages>>
    /\ AuthFrame

\* signOut after a successful auth.signOut(): the storages are cleared and
\* the page is reloaded, which mounts the provider anew
SignOut_Reload ==
    /\ signOutPc = "cleanup"
    /\ authEvents = <<>>
    /\ capturedImages' = <<>>
    /\ authUser' = Null
    /\ authLoading' = TRUE
    /\ handled' = <<>>
    /\ lookupPc' = "pending"
    /\ lookupValue' = Null
    /\ signOutPc' = "idle"
    /\ UNCHANGED <<session, authEvents, restoreValue, emitted, signOuts>>
    /\ AuthFrame

\* auth.signOut() returned an error: the catch asks getSession
SignOut_Failed ==
    /\ signOutPc = "calling"
    /\ signOutPc' = "restoring"
    /\ UNCHANGED <<authUser, authLoading, session, authEvents, handled, lookupPc,
                   lookupValue, restoreValue, emitted, signOuts, capturedImages>>
    /\ AuthFrame

\* the catch's getSession reads the session
SignOut_RestoreRead ==
    /\ signOutPc = "restoring"
    /\ restoreValue' = session
    /\ signOutPc' = "restored"
    /\ UNCHANGED <<authUser, authLoading, session, authEvents, handled, lookupPc,
                   lookupValue, emitted, signOuts, capturedImages>>
    /\ AuthFrame

\* the catch after its await: the user is put back, the error rethrown, and
\* the finally sets loading to false
SignOut_Restored ==
    /\ signOutPc = "restored"
    /\ authUser' = userOf(restoreValue)
    /\ authLoading' = FALSE
    /\ signOutPc' = "idle"
    /\ UNCHANGED <<session, authEvents, handled, lookupPc, lookupValue, restoreValue,
                   emitted, signOuts, capturedImages>>
    /\ AuthFrame

\* the parts no page drives
ExtIdle == AltIdle /\ SwIdle /\ AuthIdle /\ FormIdle

(***************************************************************************)
(* Specifications                                                          *)
(***************************************************************************)
ValIdle == file = [type |-> Mime("", ""), size |-> 0] /\ validation = NotRun
DimIdle == img = [width |-> 1, height |-> 1] /\ processed = NotRun

InitValidate == ValInit /\ DimIdle /\ DbIdle /\ AddIdle /\ SelIdle /\ EditIdle /\ DetailIdle /\ CamIdle /\ FinIdle /\ ExtIdle
NextValidate == Validate \/ PickFile
SpecValidate == InitValidate /\ [][NextValidate]_vars

InitResize == DimInit /\ ValIdle /\ DbIdle /\ AddIdle /\ SelIdle /\ EditIdle /\ DetailIdle /\ CamIdle /\ FinIdle /\ ExtIdle
NextResize == ProcessImage
SpecResize == InitResize /\ [][NextResize]_vars

InitAdd == AddInit /\ DbIdle /\ ValIdle /\ DimIdle /\ SelIdle /\ EditIdle /\ DetailIdle /\ CamIdle /\ FinIdle /\ ExtIdle
NextAdd ==
    \/ AddSubmit_NotSignedIn
    \/ AddSubmit_Begin
    \/ AddSubmit_BowlFailed
    \/ AddSubmit_BowlInserted
    \/ \E ok \in BOOLEAN : AddSubmit_FinishesInserted(ok)
    \/ AddUpload_VariantStored
    \/ AddUpload_VariantFailed_NothingToClean
    \/ AddUpload_VariantFailed_Cleanup
    \/ \E ok \in BOOLEAN : AddUpload_CleanupDone(ok)
    \/ \E ok \in BOOLEAN : AddSubmit_ImageInserted(ok)
SpecAdd == InitAdd /\ [][NextAdd]_vars

InitSelect == SelInit /\ AddIdleButImages /\ DbIdle /\ ValIdle /\ DimIdle /\ EditIdle /\ DetailIdle /\ CamIdle /\ FinIdle /\ ExtIdle
NextSelect ==
    \/ \E n \in 1..(MaxPicked - picked), byDrop \in BOOLEAN :
          \E files \in FileListsOf(n, picked) : SelectFiles(files, byDrop)
    \/ \E n \in 1..(MaxPicked - picked), byDrop \in BOOLEAN :
          \E files \in FileListsOf(n, picked) : SelectFiles_TooMany(files, byDrop)
    \/ \E n \in DOMAIN runs : DimensionsSettled(n)
    \/ \E n \in DOMAIN runs : ProcessSettled(n)
    \/ \E id \in {images[k].id : k \in {1, Len(images)} \cap DOMAIN images} : RemoveImage(id)
SpecSelect == InitSelect /\ [][NextSelect]_vars

InitEdit == EditInit /\ ValIdle /\ DimIdle /\ AddIdle /\ SelIdle /\ DetailIdle /\ CamIdle /\ FinIdle /\ ExtIdle
NextEdit ==
    \/ \E n \in 1..(MaxEditPicked - editPicked) :
          \E files \in EditFileListsOf(n, editPicked) : HandleImageUpload(files)
    \/ \E f \in pendingReads : ReaderLoaded(f)
    \/ \E index \in DOMAIN editImages : EditRemoveImage(index)
    \/ \E index \in DOMAIN editImages, direction \in {"left", "right"} :
          EditMoveImage(index, direction)
    \/ \E oldIndex \in DOMAIN editImages, newIndex \in DOMAIN editImages :
          EditDragEnd(oldIndex, newIndex)
    \/ EditSubmit_Begin
    \/ EditSubmit_BowlFailed
    \/ EditSubmit_BowlUpdated
    \/ \E ok \in BOOLEAN : EditSubmit_FinishesDeleted(ok)
    \/ \E ok \in BOOLEAN : EditSubmit_FinishesInserted(ok)
    \/ \E ok \in BOOLEAN : EditSubmit_ImagesSelected(ok)
    \/ \E ok \in BOOLEAN : EditDelete_BlobRemoved(ok)
    \/ \E ok \in BOOLEAN : EditDelete_RowDeleted(ok)
    \/ \E ok \in BOOLEAN : EditUpload_Stored(ok)
    \/ \E ok \in BOOLEAN : EditUpload_RowInserted(ok)
    \/ \E ok \in BOOLEAN : EditOrder_Updated(ok)
SpecEdit == InitEdit /\ [][NextEdit]_vars

InitDetail == DetailInit /\ EditFormIdle /\ ValIdle /\ DimIdle /\ AddIdle /\ SelIdle /\ CamIdle /\ FinIdle /\ ExtIdle
NextDetail ==
    \/ \E index \in DOMAIN detailImages, direction \in {"left", "right"} :
          DetailMoveImage(index, direction)
    \/ \E oldIndex \in DOMAIN detailImages, newIndex \in DOMAIN detailImages :
          DetailDragEnd(oldIndex, newIndex)
    \/ SaveImageOrder_Begin
    \/ \E ok \in BOOLEAN : SaveImageOrder_Updated(ok)
    \/ \E index \in DOMAIN detailImages, ok \in BOOLEAN : HandleDeleteImage_Begin(index, ok)
    \/ \E ok \in BOOLEAN : HandleDeleteImage_RowDeleted(ok)
    \/ \E ok \in BOOLEAN : HandleDelete_PathsSelected(ok)
    \/ \E ok \in BOOLEAN : HandleDelete_BlobsRemoved(ok)
    \/ \E ok \in BOOLEAN : HandleDelete_BowlDeleted(ok)
SpecDetail == InitDetail /\ [][NextDetail]_vars

InitPipeline == PipelineInit /\ SelIdle /\ DbIdle /\ ValIdle /\ DimIdle /\ EditIdle /\ DetailIdle /\ FinIdle /\ ExtIdle
NextPipeline ==
    \/ LoadCapturedImages
    \/ \E n \in 1..(MaxPicked - picked), byDrop \in BOOLEAN :
          \E files \in FileListsOf(n, picked) : SelectFiles(files, byDrop)
    \/ \E n \in DOMAIN runs : DimensionsSettled(n)
    \/ \E n \in DOMAIN runs : ProcessSettled(n)
    \/ PipelineSubmit
    \/ AddSubmit_BowlInserted
    \/ AddUpload_VariantStored
    \/ AddUpload_VariantFailed_NothingToClean
    \/ AddUpload_VariantFailed_Cleanup
    \/ \E ok \in BOOLEAN : AddUpload_CleanupDone(ok)
    \/ \E ok \in BOOLEAN : AddSubmit_ImageInserted(ok)
SpecPipeline == InitPipeline /\ [][NextPipeline]_vars

AddRestIdle ==
    /\ user = FALSE /\ images = <<>> /\ loading = FALSE /\ debugInfo = <<>>
    /\ toasts = <<>> /\ addPc = "idle" /\ submits = 0 /\ bowlId = NoBowl
    /\ i = 0 /\ sizeIdx = 0 /\ results = <<>> /\ calls = <<>>

EditRestIdle ==
    /\ editImages = <<>> /\ pendingReads = {} /\ uploadError = NoError
    /\ orderChanged = FALSE /\ editLoading = FALSE /\ editToasts = <<>>
    /\ editPc = "idle" /\ submitted = <<>> /\ imagesToDelete = <<>> /\ editIdx = 0
    /\ uploadedCount = 0 /\ uploadErrors = 0 /\ editPicked = 0 /\ editMoves = 0
    /\ faults = 0

PagesIdle ==
    /\ ValIdle /\ DimIdle /\ DbIdle /\ AddIdle /\ SelIdle /\ EditIdle /\ DetailIdle
    /\ CamIdle /\ FinIdle

InitDraft ==
    /\ FormInit
    /\ user \in BOOLEAN /\ images = <<>> /\ loading = FALSE /\ debugInfo = <<>>
    /\ toasts = <<>> /\ addPc = "idle" /\ submits = 0 /\ bowlId = NoBowl
    /\ i = 0 /\ sizeIdx = 0 /\ results = <<>> /\ calls = <<>>
    /\ DbIdle /\ ValIdle /\ DimIdle /\ SelIdle /\ EditIdle /\ DetailIdle /\ CamIdle
    /\ AltIdle /\ SwIdle /\ AuthIdle
NextDraft ==
    \/ \E name \in TypedFields, value \in TypedValues : HandleInputChange(name, value)
    \/ \E str \in { <<"T">>, <<"D", " ">> } : TypeFinish(str)
    \/ AddFinish
    \/ \E finish \in Range(finishes) : RemoveFinish(finish)
    \/ RestoreSavedData
    \/ DismissRestorePrompt
    \/ AddSubmit_NotSignedIn
    \/ AddSubmit_Begin
    \/ AddSubmit_BowlFailed
    \/ AddSubmit_BowlInserted
    \/ \E ok \in BOOLEAN : AddSubmit_FinishesInserted(ok)
SpecDraft == InitDraft /\ [][NextDraft]_vars

InitAlternative == AltIdle /\ PagesIdle /\ SwIdle /\ AuthIdle /\ FormIdle
NextAlternative ==
    \/ \E base64Image \in AltInputs : UploadImageAlternative_Begin(base64Image)
    \/ \E ok \in BOOLEAN : UploadImageAlternative_Approach1(ok)
    \/ \E ok \in BOOLEAN : UploadImageAlternative_Approach2(ok)
    \/ \E ok \in BOOLEAN : UploadImageAlternative_Approach3(ok)
SpecAlternative == InitAlternative /\ [][NextAlternative]_vars

HttpStatuses == {200, 404}

InitWorker == SwInit /\ PagesIdle /\ AltIdle /\ AuthIdle /\ FormIdle
NextWorker ==
    \/ \E ok \in BOOLEAN : Install(ok)
    \/ Activate_Keys
    \/ \E cacheName \in deleting : Activate_Deleted(cacheName)
    \/ Activate_Claim
    \/ \E request \in SwRequests : FetchEvent(request)
    \/ \E ok \in BOOLEAN, status \in HttpStatuses : Browser_Fetched(ok, status)
    \/ \E status \in HttpStatuses : NetworkFirst_Responded(status)
    \/ NetworkFirst_Failed
    \/ NetworkFirst_Fallback
    \/ CacheFirst_Matched
    \/ \E ok \in BOOLEAN, status \in HttpStatuses : CacheFirst_Fetched(ok, status)
    \/ \E request \in pendingPuts : CachePut(request)
SpecWorker == InitWorker /\ [][NextWorker]_vars

AuthEventNames == {"SIGNED_IN", "SIGNED_OUT", "TOKEN_REFRESHED", "USER_UPDATED"}

InitAuth == AuthInit /\ PagesIdle /\ AltIdle /\ SwIdle /\ FormIdle
NextAuth ==
    \/ \E event \in AuthEventNames : ClientEvent(event)
    \/ \E ok \in BOOLEAN : GetInitialSession_Read(ok)
    \/ GetInitialSession_Resolved
    \/ AuthListener
    \/ SignOut_Begin
    \/ SignOut_SignedOut
    \/ SignOut_Reload
    \/ SignOut_Failed
    \/ SignOut_RestoreRead
    \/ SignOut_Restored
SpecAuth == InitAuth /\ [][NextAuth]_vars

InitFinish ==
    FinishInit /\ AddRestIdle /\ EditRestIdle /\ DbIdle /\ ValIdle /\ DimIdle /\ SelIdle
    /\ DetailIdle /\ CamIdle /\ ExtIdle
NextFinish ==
    \/ \E str \in StringsUpTo(MaxNameLen) : TypeFinish(str)
    \/ AddFinish
    \/ \E finish \in Range(finishes) : RemoveFinish(finish)
    \/ \E str \in StringsUpTo(MaxNameLen) : EditTypeFinish(str)
    \/ EditAddFinish
    \/ \E finish \in Range(editFinishes) : EditRemoveFinish(finish)
SpecFinish == InitFinish /\ [][NextFinish]_vars

(***************************************************************************)
(* What the log says of one call of uploadImageSet                         *)
(***************************************************************************)
RemoveRequestsOf(c) == SelectSeq(net, LAMBDA r : r.op = "remove" /\ r.call = c.token)

UploadRequestsOf(c) == SelectSeq(net, LAMBDA r : r.op = "upload" /\ r.call = c.token)

\* the path the call's variant number k went to
VariantPath(c, k) == filePath(TheBowl, sizes[k], c.token)

\* the variants of the call's set that the blob store holds
StoredVariants(c) == { k \in 1..Len(sizes) : VariantPath(c, k) \in storage }

Returned(c) == c.ret # "pending"

(***************************************************************************)
(* C1: when the upload of the j-th variant fails, then by the time         *)
(* uploadImageSet returns null exactly one removal request was issued,     *)
(* listing exactly the j-1 paths uploaded earlier in the call; for j = 1   *)
(* no removal request is issued.                                           *)
(***************************************************************************)
C1_CleanupListsEarlierUploads ==
    \A n \in DOMAIN calls :
        LET c == calls[n]
            rm == RemoveRequestsOf(c)
        IN  c.ret = "null" =>
              /\ c.failedAt \in 1..Len(sizes)
              /\ IF c.failedAt = 1
                 THEN rm = <<>>
                 ELSE /\ Len(rm) = 1
                      /\ Len(rm[1].target) = c.failedAt - 1
                      /\ Range(rm[1].target) =
                            { VariantPath(c, k) : k \in 1..(c.failedAt - 1) }

\* a call whose third upload failed has returned null, after one removal
\* request for its two earlier uploads
C1_Witness_ThirdVariantFailed ==
    \E n \in DOMAIN calls :
        /\ calls[n].ret = "null"
        /\ calls[n].failedAt = 3
        /\ Len(UploadRequestsOf(calls[n])) = 3
        /\ Len(RemoveRequestsOf(calls[n])) = 1
        /\ Len(RemoveRequestsOf(calls[n])[1].target) = 2

(***************************************************************************)
(* C2, as claimed: once a call of uploadImageSet has returned, the blob    *)
(* store holds all four variants of its set (and it returned the set) or   *)
(* none of them (and it returned null).                                    *)
(***************************************************************************)
C2_Claimed_AllFourOrNone ==
    \A n \in DOMAIN calls :
        LET c == calls[n] IN
        Returned(c) =>
            \/ c.ret = "set" /\ StoredVariants(c) = 1..Len(sizes)
            \/ c.ret = "null" /\ StoredVariants(c) = {}

(***************************************************************************)
(* C2, amended: once a call of uploadImageSet has returned, either it      *)
(* returned the set and the blob store holds all four variants, or it      *)
(* returned null and the blob store holds none of them unless the call's   *)
(* removal request failed, in which case it still holds exactly the j-1    *)
(* variants uploaded before the failing one.                               *)
(***************************************************************************)
C2_AllFourOrNoneUnlessCleanupFailed ==
    \A n \in DOMAIN calls :
        LET c == calls[n]
            rm == RemoveRequestsOf(c)
        IN  Returned(c) =>
              \/ c.ret = "set" /\ StoredVariants(c) = 1..Len(sizes)
              \/ /\ c.ret = "null"
                 /\ StoredVariants(c) =
                       IF rm # <<>> /\ ~rm[1].ok
                       THEN 1..(c.failedAt - 1)
                       ELSE {}

\* a call has returned null after its removal request succeeded, and none of
\* its three uploaded variants is left
C2_Witness_CleanedUp ==
    \E n \in DOMAIN calls :
        /\ calls[n].ret = "null"
        /\ calls[n].failedAt = 4
        /\ RemoveRequestsOf(calls[n]) # <<>>
        /\ RemoveRequestsOf(calls[n])[1].ok
        /\ StoredVariants(calls[n]) = {}

(***************************************************************************)
(* C4: in the add-bowl submission every image of the batch gets exactly    *)
(* one upload attempt (one call of uploadImageSet) whatever happened to    *)
(* the earlier images; every image whose upload or whose record insert     *)
(* failed adds exactly one entry to the debug text; and once the image     *)
(* loop has begun the submission is not aborted and the bowl row stays.    *)
(***************************************************************************)
CallsFor(index) == { n \in DOMAIN calls : calls[n].image = index }

UploadFailedEntries(index) ==
    { n \in DOMAIN debugInfo :
        debugInfo[n] = DebugEntry("Image upload failed for image", index + 1) }

ImageErrorEntries == { n \in DOMAIN debugInfo : debugInfo[n].text = "Image error" }

FailedInserts ==
    { n \in DOMAIN net :
        net[n].op = "insert" /\ net[n].target = "bowl_images" /\ ~net[n].ok }

C4_EveryImageAttemptedOnce ==
    /\ calls # <<>> => addPc \in {"upload", "cleanup", "insertImage", "done"}
    /\ calls # <<>> => TheBowl \in bowls
    /\ addPc = "done" =>
          /\ \A index \in 0..(Len(images) - 1) :
                /\ Cardinality(CallsFor(index)) = 1
                /\ \A n \in CallsFor(index) :
                      Cardinality(UploadFailedEntries(index)) =
                          IF calls[n].ret = "null" THEN 1 ELSE 0
          /\ Cardinality(ImageErrorEntries) = Cardinality(FailedInserts)
          /\ toasts[Len(toasts)] = Toast("Bowl Added", "default")

\* a submission of two images is over: the upload of the first failed, the
\* record insert of the second failed, and the debug text has both entries
C4_Witness_TwoFailuresTwoEntries ==
    /\ addPc = "done"
    /\ Len(images) = 2
    /\ Len(calls) = 2
    /\ calls[1].ret = "null"
    /\ calls[2].ret = "set"
    /\ Cardinality(FailedInserts) = 1
    /\ Len(debugInfo) = 2

(***************************************************************************)
(* C8: the Image record created for the image at index k of the submitted  *)
(* list has display_order = k (and is the record of that image).           *)
(***************************************************************************)
\* the record made from the upload of call c
RecordsOf(c) == { r \in bowl_images : r.thumbnail_path = VariantPath(c, 1) }

C8_DisplayOrderIsListIndex ==
    /\ \A n \in DOMAIN calls : \A r \in RecordsOf(calls[n]) :
          /\ r.display_order = calls[n].image
          /\ r.file_size = images[calls[n].image + 1].fileSize
    /\ \A r \in bowl_images : \E n \in DOMAIN calls : r \in RecordsOf(calls[n])

\* the upload of the first image failed and the second image, at index 1,
\* has its record
C8_Witness_SecondImageLinked ==
    /\ addPc = "done"
    /\ Len(calls) = 2
    /\ calls[1].ret = "null"
    /\ \E r \in bowl_images : r.display_order = 1 /\ r.file_size = images[2].fileSize

(***************************************************************************)
(* C5: validateImageFile accepts a file iff its size is at most 10 MB      *)
(* (10*1024*1024 bytes, the boundary included) and its MIME type is one    *)
(* of the allow-list's formats JPEG, PNG, WebP, GIF; a rejected file gets  *)
(* an error naming a constraint the file violates; and the check leaves    *)
(* the file as it was.                                                     *)
(***************************************************************************)
\* the format a MIME type names; image/jpg is the common alias of image/jpeg
FormatOf(type) ==
    CASE type = Mime("image", "jpeg") -> "JPEG"
      [] type = Mime("image", "jpg") -> "JPEG"
      [] type = Mime("image", "png") -> "PNG"
      [] type = Mime("image", "webp") -> "WebP"
      [] type = Mime("image", "gif") -> "GIF"
      [] OTHER -> "other"

AllowedFormats == {"JPEG", "PNG", "WebP", "GIF"}
TenMB == 10 * 1024 * 1024

C5_Decision ==
    validation # NotRun =>
        /\ validation.valid <=>
              (file.size <= TenMB /\ FormatOf(file.type) \in AllowedFormats)
        /\ ~validation.valid =>
              \/ validation.error = ErrTooLarge /\ file.size > TenMB
              \/ /\ validation.error \in {ErrNotImage, ErrFormat}
                 /\ FormatOf(file.type) \notin AllowedFormats

C5_ValidatorAcceptsIffSizeAndType ==
    /\ []C5_Decision
    /\ [][(validation = NotRun /\ validation' # NotRun) => file' = file]_vars

\* a file of exactly 10 MB was accepted and a file one byte larger rejected
C5_Witness_Boundary ==
    /\ validation # NotRun
    /\ file.size = TenMB
    /\ file.type = Mime("image", "png")
    /\ validation.valid

(***************************************************************************)
(* C7: for every source W x H and every variant box B, the variant's       *)
(* (w, h) has max(w, h) <= B, w <= W, h <= H, and w:h equals W:H up to     *)
(* one pixel of rounding: some exact multiple (sW, sH) of the source size  *)
(* lies within one pixel of (w, h) on each axis.                           *)
(***************************************************************************)
Max(a, b) == IF a >= b THEN a ELSE b

RatioWithinOnePixel(w, h, W, H) ==
    \* the intervals [(w-1)/W, (w+1)/W] and [(h-1)/H, (h+1)/H] of scales meet
    /\ (w - 1) * H <= (h + 1) * W
    /\ (h - 1) * W <= (w + 1) * H

C7_FitsBoxNoUpscaleKeepsRatio ==
    processed # NotRun =>
        \A s \in Range(sizes) :
            LET v == processed[s] IN
            /\ Max(v.width, v.height) <= BoxOf(s)
            /\ v.width <= img.width
            /\ v.height <= img.height
            /\ RatioWithinOnePixel(v.width, v.height, img.width, img.height)

\* a portrait source larger than the largest box on both axes, whose scaled
\* width is not an integer, was resized
C7_Witness_TwoStepRounded ==
    /\ processed # NotRun
    /\ img.width > OriginalBox
    /\ img.height > img.width
    /\ (img.width * OriginalBox) % img.height # 0
    /\ processed.original.height = OriginalBox

\* a file that passes validation and that the browser can decode and resize
Processable(f) == validateImageFile(f).valid /\ f.content = "good"

\* the files run r added to the image list
Added(r) == {r.newImages[k].file : k \in DOMAIN r.newImages}

\* C3: when a selection of several files has been worked off, a file of the
\* batch that failed did not keep the files after it in the batch from being
\* processed: every file that passes validation and decodes was added,
\* wherever in the batch the failing files are.
C3_LaterFilesStillProcessed ==
    \A n \in DOMAIN runs :
        runs[n].step = "done" =>
            \A k \in DOMAIN runs[n].files :
                Processable(runs[n].files[k]) => runs[n].files[k] \in Added(runs[n])

\* the file a request of the edit page was made for
FileOf(req) == req.call.data

\* C6: a file larger than 10 MB or of a type outside the allow-list never
\* causes a storage upload: on the edit page, every upload request is made
\* for a file that validateImageFile accepts.
C6_NoUploadOfInvalidFile ==
    \A k \in DOMAIN net :
        net[k].op = "upload" => validateImageFile(FileOf(net[k])).valid

\* row r is the Image record of the form's image im: by id for an existing
\* image, by the path its upload went to for a new one
IsRecordOf(r, im) ==
    IF im.isNew
    THEN \E k \in DOMAIN net :
            net[k].op = "upload" /\ net[k].call = im.url /\ net[k].target = r.storage_path
    ELSE r.id = im.id

NoFailingWrite == \A k \in DOMAIN net : net[k].ok

\* C9: after Save Changes on the edit page with no failing write, the
\* bowl's Image records are as many as the images on screen when saving,
\* and the record of the image at position k has display_order k - 1: the
\* values are a permutation of 0..count-1 in the on-screen order.
C9_SavedOrderIsScreenOrder ==
    (editPc = "done" /\ NoFailingWrite) =>
        LET rows == {r \in bowl_images : r.bowl_id = TheBowl}
        IN  /\ Cardinality(rows) = Len(submitted)
            /\ \A k \in DOMAIN submitted :
                  \E r \in rows : IsRecordOf(r, submitted[k]) /\ r.display_order = k - 1

\* the four variant paths of a row
VariantPaths(row) ==
    {row.thumbnail_path, row.medium_path, row.full_path, row.original_path}

StoredPaths(row) == {row[pathFields[k]] : k \in DOMAIN pathFields} \ {Null}

InsertFailedFor(c) ==
    \E n \in FailedInserts : net[n].call = c.token

\* C12: in the add-bowl submission, when the four variants of an image
\* were uploaded but the insert of its Image record failed, no removal of
\* those blobs is ever issued, all four stay in the blob store, no record
\* references them, and the debug text reports the failure.
C12_NoRollbackAfterFailedInsert ==
    \A n \in DOMAIN calls :
        (calls[n].ret = "set" /\ InsertFailedFor(calls[n])) =>
            /\ \A q \in DOMAIN net :
                  net[q].op = "remove" =>
                      Range(net[q].target) \cap
                          {VariantPath(calls[n], k) : k \in 1..Len(sizes)} = {}
            /\ StoredVariants(calls[n]) = 1..Len(sizes)
            /\ RecordsOf(calls[n]) = {}
            /\ ImageErrorEntries # {}

\* the submission is over, the insert for the first image's set failed, and
\* its four blobs are in the store while another image's cleanup has run
C12_Witness_OrphanedSet ==
    /\ addPc = "done"
    /\ Len(calls) = 2
    /\ calls[1].ret = "set"
    /\ InsertFailedFor(calls[1])
    /\ StoredVariants(calls[1]) = 1..Len(sizes)
    /\ calls[2].ret = "null"
    /\ RemoveRequestsOf(calls[2]) # <<>>

\* the file the call c of uploadImageSet is made for
FileOfCall(c) == images[c.image + 1].file

\* file f went through validateImageFile and processImage in a call of
\* handleFileSelect
ValidatedThenResized(f) == \E n \in DOMAIN runs : f \in Added(runs[n])

\* C13: a file reaches Uploaded or Linked only after it was Validated and
\* then Resized: every file an upload is started for on the add page has
\* passed validateImageFile and processImage before.
C13_UploadOnlyAfterValidation ==
    \A n \in DOMAIN calls : ValidatedThenResized(FileOfCall(calls[n]))

\* the call c of uploadImageSet and the insert that follows it are over
Finished(c) ==
    \/ c.ret = "null"
    \/ c.ret = "set" /\ \E q \in DOMAIN net :
                           net[q].op = "insert" /\ net[q].target = "bowl_images"
                           /\ net[q].call = c.token

\* file f has reached Linked or a failure state
Terminal(f) ==
    \/ ~Processable(f)
    \/ \E n \in DOMAIN calls : FileOfCall(calls[n]) = f /\ Finished(calls[n])

\* C14, as claimed: no pipeline step of file i+1 of a batch starts before
\* file i has gone fully through the pipeline: while a call of
\* handleFileSelect is working on file k, every file before k has reached
\* Linked or a failure state.
C14_Claimed_OneFileFullyThrough ==
    \A n \in DOMAIN runs :
        runs[n].step \in {"dims", "process"} =>
            \A p \in 1..(runs[n].k - 1) : Terminal(runs[n].files[p])

\* C14, amended: within each of the two phases the files are handled one at
\* a time in list order. In handleFileSelect the file being worked on is
\* preceded only by files already resized and added in batch order; in
\* handleSubmit the calls of uploadImageSet go through the images in list
\* order, a call starts only after the one before is over, and the requests
\* of one image never mix with those of another.
C14_OneFileAtATimePerPhase ==
    /\ \A n \in DOMAIN runs :
          LET r == runs[n]
              m == Len(r.newImages)
          IN  /\ m <= Len(r.files)
              /\ \A q \in 1..m : r.newImages[q].file = r.files[q]
              /\ r.step \in {"dims", "process"} => m = r.k - 1
    /\ \A n \in DOMAIN calls :
          /\ calls[n].image = n - 1
          /\ n < Len(calls) => Finished(calls[n])
    /\ \A a \in DOMAIN net : \A b \in DOMAIN net : a < b => net[a].call <= net[b].call

\* a batch of two files was resized file by file, and at submission the
\* upload of the second image has started after the first was linked
C14_Witness_TwoFilesBothPhases ==
    /\ \E n \in DOMAIN runs :
          /\ Len(runs[n].files) = 2
          /\ runs[n].step = "done"
          /\ Len(runs[n].newImages) = 2
    /\ Len(calls) = 2
    /\ addPc = "upload"
    /\ \E r \in bowl_images : r.display_order = 0

\* a step of the add submission failed: the write of the finishes, the
\* upload of a variant or the insert of an Image record (a failed cleanup
\* does not count)
AddStepFailed ==
    \E k \in DOMAIN net :
        /\ ~net[k].ok
        /\ net[k].op \in {"upload", "insert"}
        /\ net[k].target # "bowls"

\* C15: an add-bowl submission in which a step failed never ends with the
\* unqualified success notification.
C15_NoPlainSuccessAfterFailure ==
    (addPc = "done" /\ AddStepFailed) =>
        toasts[Len(toasts)] # Toast("Bowl Added", "default")

\* a finishes list as the claim wants it: every name has a first and a last
\* character that are not blanks, and no name occurs twice
WellKept(list) ==
    /\ \A k \in DOMAIN list :
        /\ list[k] # <<>>
        /\ list[k][1] # " "
        /\ list[k][Len(list[k])] # " "
    /\ \A j, k \in DOMAIN list : list[j] = list[k] => j = k

\* the typed string with its leading and trailing blanks dropped (stated
\* without trim: the substring between the first and the last non-blank)
Stripped(str) ==
    LET solid == {k \in DOMAIN str : str[k] # " "}
    IN  IF solid = {} THEN <<>>
        ELSE SubSeq(str, CHOOSE a \in solid : \A b \in solid : a <= b,
                         CHOOSE a \in solid : \A b \in solid : a >= b)

\* one step of a finishes list: left alone, one new name appended at the end
\* (the stripped input, not blank, not present before), or names taken out
\* with the rest in their order
KeptInOrder(list, after, typed) ==
    \/ after = list
    \/ /\ after = Append(list, Stripped(typed))
       /\ Stripped(typed) # <<>>
       /\ ~ \E k \in DOMAIN list : list[k] = Stripped(typed)
    \/ \E gone \in Range(list) : after = SelectSeq(list, LAMBDA f : f # gone)

\* C16: the finishes list of the add page and of the edit page never holds a
\* name twice nor an empty or blank name, keeps the names in the order of
\* their first addition, and is left unchanged when the name added is (after
\* trimming) empty or already present.
C16_FinishesListWellKept ==
    /\ [](WellKept(finishes) /\ WellKept(editFinishes))
    /\ [][/\ KeptInOrder(finishes, finishes', newFinish)
          /\ KeptInOrder(editFinishes, editFinishes', editNewFinish)
          /\ (\E k \in DOMAIN finishes : finishes[k] = Stripped(newFinish))
                => Len(finishes') <= Len(finishes)
          /\ (\E k \in DOMAIN editFinishes : editFinishes[k] = Stripped(editNewFinish))
                => Len(editFinishes') <= Len(editFinishes)]_vars

\* a name typed with blanks around it while the same name is in the list
C16_Witness_PaddedDuplicate ==
    \/ page = "add" /\ finishes = << <<"T">>, <<"D">> >> /\ newFinish = <<" ", "D">>
    \/ page = "edit" /\ Len(editFinishes) = 1 /\ editNewFinish = <<"T", " ">>
          /\ editFinishes[1] = <<"T">>

\* the finish names stored for the bowl
StoredFinishes(bowl) == { r.finish_name : r \in {q \in bowl_finishes : q.bowl_id = bowl} }

\* C17: once an edit submission has completed, the set of stored finishes of
\* the bowl equals the form's finish list.
C17_StoredFinishesEqualForm ==
    (editPc = "done" /\ editToasts # <<>>
       /\ editToasts[Len(editToasts)].title = "Bowl Updated")
        => StoredFinishes(TheBowl) = Range(editFinishes)

\* the blobs stored under the folder of the bowl
BlobsOf(bowl) == {p \in storage : p.bowl = bowl}

\* C18: after a bowl deletion that ended with 'Bowl Deleted', the bowl row,
\* its finish rows, its image rows and every blob of the bowl are gone.
C18_DeletedBowlLeavesNothing ==
    detailPc = "deleted" =>
        /\ TheBowl \notin bowls
        /\ \A r \in bowl_finishes : r.bowl_id # TheBowl
        /\ \A r \in bowl_images : r.bowl_id # TheBowl
        /\ BlobsOf(TheBowl) = {}

\* the columns the claim wants set in every Image record
variantColumns ==
    { "thumbnail_url", "thumbnail_path", "medium_url", "medium_path",
      "full_url", "full_path", "original_url", "original_path" }

Populated(row) ==
    /\ \A c \in variantColumns : row[c] # Null
    /\ row.file_size \in Nat
    /\ row.original_dimensions # Null
    /\ row.display_order \in Nat

\* C19: every Image record the application creates has the four variant
\* URL/path pairs, the byte size, the original dimensions and a display
\* order; here for the records of a bowl the edit page has been submitted on.
C19_EveryRecordFullyPopulated ==
    \A r \in bowl_images : Populated(r)

\* this step is a request of the detail page
Requested == Len(net') = Len(net) + 1

\* this step is the failure of an update of saveImageOrder
OrderUpdateFailed == detailPc = "saving" /\ Requested /\ ~net'[Len(net')].ok

\* C20: when the update at a position fails while the order is saved on the
\* detail page, the updates of the positions before it stay applied, no row
\* is changed back, no later position is tried (an update is only sent for
\* the position the loop stands at, and the loop is over), the error toast
\* is shown and the order stays marked as changed.
C20_FailedSaveKeepsPartialOrder ==
    [][/\ OrderUpdateFailed =>
            /\ \A j \in 1..(detailIdx - 1) :
                  \E r \in bowl_images' : r.id = imageIds[j] /\ r.display_order = j - 1
            /\ bowl_images' = bowl_images
            /\ detailToasts' = Append(detailToasts, Toast("Error", "destructive"))
            /\ detailOrderChanged /\ detailOrderChanged'
            /\ detailPc' = "idle"
       /\ (Requested /\ net'[Len(net')].op = "update") =>
            /\ detailPc = "saving"
            /\ net'[Len(net')].call = imageIds[detailIdx]]_vars

\* the second update failed after the first had put another image in front
C20_Witness_FailedAtSecond ==
    /\ detailPc = "idle"
    /\ detailIdx = 2
    /\ net # <<>>
    /\ net[Len(net)] = Req("update", "bowl_images", FALSE, imageIds[2])
    /\ imageIds[1] # 1
    /\ \E r \in bowl_images : r.id = imageIds[1] /\ r.display_order = 0
    /\ detailOrderChanged

UploadRequests == { n \in DOMAIN net : net[n].op = "upload" }

ImageInserts == { n \in DOMAIN net : net[n].op = "insert" /\ net[n].target = "bowl_images" }

\* C21: no upload and no record insert is retried: no path is the target of
\* two upload requests, after a failed upload request of a call no other
\* upload request of that call follows, and no call has two record inserts.
C21_NoAutomaticRetry ==
    /\ \A m, n \in UploadRequests :
          /\ net[m].target = net[n].target => m = n
          /\ (m < n /\ ~net[m].ok) => net[m].call # net[n].call
    /\ \A m, n \in ImageInserts : net[m].call = net[n].call => m = n

\* the Image records of the bowl
ImagesOf(bowl) == {r \in bowl_images : r.bowl_id = bowl}

\* the home page's picture of a bowl with images: bowl.images[0].medium of
\* mapDatabaseBowlToFrontend, the rows taken in ascending display_order
galleryThumbnail(bowl) ==
    getImageUrls(OrderedBy(ImagesOf(bowl), "display_order")[1]).medium

\* C22: once the operations on a bowl with at least one Image record are
\* over, exactly one of its records has display_order 0 and the home page
\* shows that record's image.
C22_ThumbnailIsTheOrderZeroImage ==
    (detailPc = "idle" /\ ImagesOf(TheBowl) # {}) =>
        /\ Cardinality({r \in ImagesOf(TheBowl) : r.display_order = 0}) = 1
        /\ \E r \in ImagesOf(TheBowl) :
              r.display_order = 0 /\ galleryThumbnail(TheBowl) = getImageUrls(r).medium

\* C23: the upload requests of one call of uploadImageSet go, in this order,
\* to the thumbnail, the medium, the full and the original variant of its
\* set, and only the last of them may have failed: after a failed upload no
\* later variant of the set is requested.
C23_VariantsInOrderUntilFirstFailure ==
    \A n \in DOMAIN calls :
        LET ups == UploadRequestsOf(calls[n])
        IN  /\ Len(ups) <= 4
            /\ \A k \in DOMAIN ups :
                  /\ ups[k].target.size = <<"thumbnail", "medium", "full", "original">>[k]
                  /\ ups[k].target.name = calls[n].token
                  /\ k < Len(ups) => ups[k].ok

\* a call has returned after its second upload, the one of the medium
\* variant, failed
C23_Witness_StoppedAtMedium ==
    \E n \in DOMAIN calls :
        /\ Returned(calls[n])
        /\ Len(UploadRequestsOf(calls[n])) = 2
        /\ ~UploadRequestsOf(calls[n])[2].ok
        /\ n < Len(calls)

\* a same-origin GET request for a page
PageRequest(request) ==
    /\ request # Null
    /\ request.method = "GET" /\ request.origin = "self"
    /\ \/ request.destination = "document"
       \/ request.pathname = <<"/">>
       \/ /\ Len(request.pathname) >= 5
          /\ SubSeq(request.pathname, 1, 5) = <<"/", "b", "o", "w", "l">>

\* this step gives the page its response
Answering == swResponse = Null /\ swResponse' # Null

\* C24: for a same-origin GET request for a page the response is the
\* network's whenever the network responded, a cached copy only when the
\* network failed, and 503 Offline only when the network failed and no
\* cache holds a copy; for the page requests the worker answers itself, a
\* failed network with a copy at hand gives the copy.
C24_PagesNetworkFirst ==
    [][(Answering /\ PageRequest(swRequest)) =>
          /\ swNetwork' = "responded" => swResponse'.from = "network"
          /\ swResponse'.from = "cache" => swNetwork' = "failed"
          /\ swResponse'.from = "offline" =>
                (swNetwork' = "failed" /\ ~cached(swRequest))
          /\ (swStep = "fallback" /\ cached(swRequest)) => swResponse'.from = "cache"]_vars

\* the home page was served from the cache after the network had failed
C24_Witness_ServedFromCache ==
    /\ PageRequest(swRequest)
    /\ swRequest.pathname = <<"/">>
    /\ swNetwork = "failed"
    /\ swResponse = Response("cache", 200)

\* C25: once the activate step of the worker is over, every cache that
\* exists is the static or the dynamic cache of the current version.
C25_OnlyCurrentCachesAfterActivate ==
    swState = "activated" => DOMAIN cacheStore \subseteq {STATIC_CACHE, DYNAMIC_CACHE}

\* the worker is active after caches.keys() had shown both caches of the
\* version before and another one
C25_Witness_OldCachesDeleted ==
    /\ swState = "activated"
    /\ LeftOverCaches \subseteq cacheNames
    /\ STATIC_CACHE \in DOMAIN cacheStore

\* C26: every variant processImage makes of a source of at least one pixel
\* each way is at least one pixel wide and one pixel high.
C26_NoZeroSizedVariant ==
    (processed # NotRun /\ img.width >= 1 /\ img.height >= 1) =>
        \A s \in Range(sizes) : processed[s].width >= 1 /\ processed[s].height >= 1

\* C27: once every selection has finished, the image list holds each image a
\* selection has processed (none was removed by the user).
C27_NoProcessedImageLost ==
    (removals = 0 /\ \A n \in DOMAIN runs : runs[n].step \in {"done", "refused"}) =>
        \A n \in DOMAIN runs :
            \A k \in DOMAIN runs[n].newImages :
                \E m \in DOMAIN images : images[m] = runs[n].newImages[k]

\* C28: the form of the add page never holds more than maxImages images,
\* whatever was selected, dropped, removed or brought from the camera.
C28_NeverMoreThanMaxImages == Len(images) <= maxImages

\* the listener has handled a SIGNED_OUT and no SIGNED_IN or TOKEN_REFRESHED
\* since
SignedOutSince ==
    \E k \in DOMAIN handled :
        /\ handled[k] = "SIGNED_OUT"
        /\ \A j \in (k + 1)..Len(handled) : handled[j] \notin {"SIGNED_IN", "TOKEN_REFRESHED"}

\* C29: from the listener's handling of SIGNED_OUT until it handles a
\* SIGNED_IN or a TOKEN_REFRESHED the provider's user is null.
C29_SignedOutStaysSignedOut == SignedOutSince => authUser = Null

\* a step that ends a submission of the add page with the Error toast
AddSubmissionFails ==
    /\ Len(toasts') = Len(toasts) + 1
    /\ toasts'[Len(toasts')] = Toast("Error", "destructive")

\* C30: the step that ends a submission of the add page in success leaves no
\* draft in localStorage, and a step that ends one in failure leaves, for a
\* form that holds anything, the draft with the form's fields and finishes
C30_DraftClearedOnSuccessKeptOnFailure ==
    [][ /\ (addPc # "done" /\ addPc' = "done") => draft' = NoDraft
        /\ (AddSubmissionFails /\ hasFormData(formData, finishes)) =>
              draft' = saveFormDataToStorage(formData, finishes) ]_vars
====
